---- MODULE Spec2Model ----
(***************************************************************************)
(* RepoWhisper backend: the per-user LanceDB vector store (search.py), the *)
(* chunker and the file discovery (indexer.py).                            *)
(*                                                                         *)
(* Spec       the vector store: get_vector_store, index_chunks, search,    *)
(*            clear_repo, count, with storage and embedding calls that     *)
(*            succeed.                                                     *)
(* ClearSpec  the same operations for one user, with the history of the    *)
(*            clear_repo calls.                                            *)
(* FaultSpec  the same operations for one user, where the storage and     *)
(*            embedding calls of search and clear_repo may raise.          *)
(* RegistrySpec  get_vector_store called by two concurrent callers.        *)
(* OverlapSpec   index_chunks and clear_repo in flight on one store, as    *)
(*               callers on two threads would run them.                    *)
(* LoadSpec      embed_text / embed_batch called by two concurrent callers.*)
(* BatchSpec     index_chunks batch by batch, where a batch may fail.      *)
(* ChunkSpec  chunk_file / _split_into_chunks applied to bounded files.    *)
(* DiscSpec   discover_files applied to a bounded file tree.               *)
(* RepoSpec   index_repository over such a tree, some files unreadable.    *)
(* LimitSpec  search on one user's table preloaded with up to MaxStored    *)
(*            rows.                                                        *)
(* SearchApiSpec  the /search handler and search_code on preloaded stores. *)
(* IndexApiSpec   the /index handler, step by step, for one user.          *)
(* ServeSpec      two requests of one user, /index or DELETE /repos/{id},  *)
(*                served at the same time by the event loop.               *)
(***************************************************************************)
EXTENDS Integers, Sequences, FiniteSets, TLC

(***************************************************************************)
(* Bounds of the model.                                                    *)
(***************************************************************************)
\* rows the tables may hold in total before index_chunks is no longer offered
MaxRows == 2

Users == {"u1", "u2"}
Repos == {"r1", "r2"}
Queries == {"q1"}
\* Python's None (repo_id omitted, _table unset)
None == "None"
\* the value of a column the inserted dict does not carry
NoTag == "NULL"
\* table_name's default (search.py:92, 112, 164, 215, 256)
DefaultTable == "code_chunks"
\* batch_size's default (search.py:113)
DefaultBatchSize == 100
\* the over-fetch factor of search (search.py:192)
OverFetch == 3

TableNames == {DefaultTable} \cup Users

\* CodeChunk values handed to index_chunks (indexer.py:17-24)
ChunkPool ==
  { [file_path |-> "a.py", content |-> "ca", line_start |-> 1, line_end |-> 1,
     chunk_type |-> "file"],
    [file_path |-> "b.py", content |-> "cb", line_start |-> 1, line_end |-> 2,
     chunk_type |-> "file"] }

RECURSIVE SeqsUpTo(_, _)
SeqsUpTo(S, n) ==
  IF n = 0 THEN {<<>>}
  ELSE LET shorter == SeqsUpTo(S, n - 1)
       IN shorter \cup {Append(s, x) : s \in {t \in shorter : Len(t) = n - 1}, x \in S}

Min(a, b) == IF a <= b THEN a ELSE b

\* s[:k]
Take(s, k) == SubSeq(s, 1, Min(k, Len(s)))

(***************************************************************************)
(* Embedding: the model maps a text to a one-dimensional integer vector;   *)
(* LanceDB's default metric is the squared L2 distance.                    *)
(***************************************************************************)
embed_text(text) ==
  CASE text = "ca" -> 0
    [] text = "cb" -> 1
    [] text = "q1" -> 0
    [] OTHER -> 2

\* embed_batch keeps the input order, one vector per text
embed_batch(texts) == [i \in 1..Len(texts) |-> embed_text(texts[i])]

Distance(v, w) == (v - w) * (v - w)

VARIABLES
  user_stores,   \* keys of _user_stores: the users a VectorStore exists for
  exists,        \* exists[u]: names of the tables in u's database
  tables,        \* tables[u][name]: the rows of that table, in insertion order
  cached,        \* cached[u]: VectorStore._table, None or the table it refers to
  addMode,       \* what table.add does with a dict lacking user_id / repo_id
  last,          \* the last completed call: arguments and outcome
  cleared,       \* history (ClearSpec): the clear_repo calls not followed by an
                 \* index_chunks call for the same repository
  file,          \* chunker: the file's lines
  max_chunk_size,\* chunker: the size limit
  chunks,        \* chunker: whether chunk_file was called, and what it returned
  tree,          \* discovery: the files and directories below the root
  request,       \* discovery: mode, file_paths, patterns
  discovered,    \* discovery: what discover_files returned
  callers,       \* concurrent get_vector_store calls: each caller's position
  registry,      \* _user_stores: the VectorStore instance of each user, 0 for none
  built,         \* history: the user of each VectorStore constructed, in order
  returned,      \* history: the (user, instance) pairs get_vector_store returned
  idx,           \* an index_chunks call in flight on one store: its position
  clr,           \* a clear_repo call in flight on the same store: its position
  gen,           \* how many times that store's code_chunks table was dropped
  stale,         \* history: table.add was called on the handle of a dropped table
  cachedGen,     \* the table that store's _table refers to, when it is not None
  disk,          \* index_repository: what reading each file of the tree gives
  repo,          \* index_repository: the generator's position and what it yielded
  http,          \* the request a handler of main.py is serving, and its response
  loop,          \* the event loop: the task it runs and the tasks that wait
  embedders,     \* concurrent embed_text / embed_batch calls: each caller's position
  model_cache,   \* the lru_cache of get_embedding_model: 0, or the cached instance
  constructed,   \* history: how many SentenceTransformer instances were constructed
  used           \* history: the (caller, instance) pairs that encoded with an instance

storeVars == <<user_stores, exists, tables, cached, addMode, last, cleared>>
chunkVars == <<file, max_chunk_size, chunks>>
discVars == <<tree, request, discovered>>
regVars == <<callers, registry, built, returned>>
mutVars == <<idx, clr, gen, stale, cachedGen>>
repoVars == <<disk, repo>>
apiVars == <<http>>
loadVars == <<embedders, model_cache, constructed, used>>
srvVars == <<loop>>
extVars == <<repoVars, apiVars, loadVars, srvVars>>
vars == <<user_stores, exists, tables, cached, addMode, last, cleared,
          file, max_chunk_size, chunks, tree, request, discovered,
          callers, registry, built, returned, idx, clr, gen, stale, cachedGen,
          disk, repo, http, loop, embedders, model_cache, constructed, used>>

\* `last` before any call. store: the user whose VectorStore was called;
\* hits: filtered_results of a search; before: the rows clear_repo read;
\* ret: the value returned (a count); raised: the call ended in an exception;
\* fault: a storage or embedding call made by the call raised
NoCall ==
  [op |-> "none", store |-> None, user_id |-> None, repo_id |-> None,
   top_k |-> 0, hits |-> <<>>, before |-> <<>>, ret |-> 0, raised |-> FALSE,
   fault |-> FALSE]

(***************************************************************************)
(* VectorStore (search.py:77-259)                                          *)
(***************************************************************************)

\* get_table: the cached handle when there is one, else the named table,
\* opened when it exists and created empty when it does not
TableOf(u, table_name) == IF cached[u] # None THEN cached[u] ELSE table_name

\* the table names of u's database once get_table has returned
ExistsAfterGet(u, table_name) ==
  IF cached[u] # None THEN exists[u] ELSE exists[u] \cup {table_name}

\* one element of `records` in index_chunks: the dict built from a chunk and
\* its embedding; it has no user_id and no repo_id key
Record(chunk, embedding) ==
  [file_path |-> chunk.file_path, content |-> chunk.content,
   line_start |-> chunk.line_start, line_end |-> chunk.line_end,
   chunk_type |-> chunk.chunk_type, vector |-> embedding]

\* the row table.add stores for a dict, under the CodeEmbedding schema: the
\* two columns the dict lacks hold no value. ins_user and ins_repo are
\* history: the user and repository the indexing call was made for.
StoredRow(rec, u, r) ==
  [user_id |-> NoTag, repo_id |-> NoTag,
   file_path |-> rec.file_path, content |-> rec.content,
   line_start |-> rec.line_start, line_end |-> rec.line_end,
   chunk_type |-> rec.chunk_type, vector |-> rec.vector,
   ins_user |-> u, ins_repo |-> r]

\* mutant of not_chunks: the early return left out
not_chunks_never(chunkList) == FALSE

\* "not chunks", the test index_chunks starts with
not_chunks(chunkList) == chunkList = <<>>

\* mutant of AddBatches: the loop steps one chunk too far
RECURSIVE AddBatchesSkipping(_, _, _, _, _, _)
AddBatchesSkipping(rows, chunkList, i, batch_size, u, r) ==
  IF i >= Len(chunkList) THEN rows
  ELSE LET batch == SubSeq(chunkList, i + 1, Min(i + batch_size, Len(chunkList)))
           added == [k \in 1..Len(batch) |->
                       StoredRow(Record(batch[k], embed_text(batch[k].content)), u, r)]
       IN AddBatchesSkipping(rows \o added, chunkList, i + batch_size + 1, batch_size, u, r)

\* the loop of index_chunks from offset i (0-based): embed a batch, build its
\* records, add them to the table
RECURSIVE AddBatches(_, _, _, _, _, _)
AddBatches(rows, chunkList, i, batch_size, u, r) ==
  IF i >= Len(chunkList) THEN rows
  ELSE LET batch == SubSeq(chunkList, i + 1, Min(i + batch_size, Len(chunkList)))
           texts == [k \in 1..Len(batch) |-> batch[k].content]
           embeddings == embed_batch(texts)
           records == [k \in 1..Len(batch) |-> Record(batch[k], embeddings[k])]
           added == [k \in 1..Len(records) |-> StoredRow(records[k], u, r)]
       IN AddBatches(rows \o added, chunkList, i + batch_size, batch_size, u, r)

\* mutant of Matches: the user check left out
MatchesNoUser(r, user_id, repo_id) ==
  repo_id = None \/ r.repo_id = repo_id

\* mutant of Matches: the two conditions joined by "or"
MatchesEither(r, user_id, repo_id) ==
  r.user_id = user_id \/ (repo_id = None \/ r.repo_id = repo_id)

\* the filter of search: the user and, when one is given, the repository
Matches(r, user_id, repo_id) ==
  r.user_id = user_id /\ (repo_id = None \/ r.repo_id = repo_id)

\* the rows clear_repo keeps: those not tagged (user_id, repo_id)
Kept(r, user_id, repo_id) ==
  ~(r.user_id = user_id /\ r.repo_id = repo_id)

\* table.search(v).limit(n).to_list(): the n nearest rows, nearest first,
\* each with its distance; `order` is the engine's ranking of the rows
IsRanking(order, rows, qv) ==
  /\ Len(order) = Len(rows)
  /\ {order[i] : i \in 1..Len(order)} = 1..Len(rows)
  /\ \A i, j \in 1..Len(order) :
       i < j => Distance(rows[order[i]].vector, qv) <= Distance(rows[order[j]].vector, qv)

\* the sequences that list every element of S once
RECURSIVE Orders(_)
Orders(S) ==
  IF S = {} THEN {<<>>}
  ELSE UNION {{<<x>> \o o : o \in Orders(S \ {x})} : x \in S}

Rankings(rows, qv) ==
  {order \in Orders(1..Len(rows)) : IsRanking(order, rows, qv)}

\* mutant of Candidates: the candidates are not over-fetched
CandidatesNoMargin(rows, order, qv, limit) ==
  Take([i \in 1..Len(rows) |->
          [row |-> rows[order[i]], pos |-> order[i],
           distance |-> Distance(rows[order[i]].vector, qv)]], limit \div OverFetch)

Candidates(rows, order, qv, limit) ==
  Take([i \in 1..Len(rows) |->
          [row |-> rows[order[i]], pos |-> order[i],
           distance |-> Distance(rows[order[i]].vector, qv)]], limit)

\* mutant of Filtered: the filter without the cut to top_k
FilteredUncut(results, user_id, repo_id, top_k) ==
  LET ok(c) == c.row.user_id = user_id /\ (repo_id = None \/ c.row.repo_id = repo_id)
  IN SelectSeq(results, ok)

\* mutant of Filtered: the candidates cut to top_k without the filter
FilteredUnfiltered(results, user_id, repo_id, top_k) ==
  Take(results, top_k)

\* filtered_results of search
Filtered(results, user_id, repo_id, top_k) ==
  LET ok(c) == Matches(c.row, user_id, repo_id)
  IN Take(SelectSeq(results, ok), top_k)

\* the SearchResult built from one filtered result
SearchResult(c) ==
  [file_path |-> c.row.file_path, content |-> c.row.content,
   line_start |-> c.row.line_start, line_end |-> c.row.line_end,
   score |-> 1 - c.distance]

\* a complete CodeEmbedding row (search.py:22-31) of user u's database, for
\* repository r
SchemaRow(chunk, u, r) ==
  [user_id |-> u, repo_id |-> r,
   file_path |-> chunk.file_path, content |-> chunk.content,
   line_start |-> chunk.line_start, line_end |-> chunk.line_end,
   chunk_type |-> chunk.chunk_type, vector |-> embed_text(chunk.content),
   ins_user |-> u, ins_repo |-> r]

ChunkA == CHOOSE c \in ChunkPool : c.file_path = "a.py"
ChunkB == CHOOSE c \in ChunkPool : c.file_path = "b.py"

\* what the code_chunks table of .repowhisper/{u} may hold when the process
\* starts: the directory outlives the process (search.py:87-89, 284)
StoredBefore(u) ==
  { <<>>,
    <<SchemaRow(ChunkA, u, "r1")>>,
    <<SchemaRow(ChunkA, u, "r1"), SchemaRow(ChunkB, u, "r2")>>,
    <<SchemaRow(ChunkA, u, "r1"), SchemaRow(ChunkA, u, "r2")>> }

RECURSIVE SumOver(_, _)
SumOver(S, f) ==
  IF S = {} THEN 0
  ELSE LET x == CHOOSE y \in S : TRUE IN f[x] + SumOver(S \ {x}, f)

\* the rows held by all tables of all users
TotalRows ==
  SumOver(Users \X TableNames, [p \in Users \X TableNames |-> Len(tables[p[1]][p[2]])])

\* the state of the program before any request
StoreInit ==
  /\ user_stores = {}
  /\ \E stored \in [Users -> UNION {StoredBefore(u) : u \in Users}] :
       /\ \A u \in Users : stored[u] \in StoredBefore(u)
       /\ tables = [u \in Users |->
                      [n \in TableNames |-> IF n = DefaultTable THEN stored[u] ELSE <<>>]]
       /\ exists = [u \in Users |-> IF stored[u] = <<>> THEN {} ELSE {DefaultTable}]
  /\ TotalRows <= MaxRows
  /\ cached = [u \in Users |-> None]
  /\ addMode \in {"reject", "null_fill"}
  /\ last = NoCall
  /\ cleared = {}

\* get_vector_store(user_id): the user's store, constructed on first use
\* under .repowhisper/{user_id}
GetVectorStore(u) ==
  /\ u \notin user_stores
  /\ user_stores' = user_stores \cup {u}
  /\ cached' = [cached EXCEPT ![u] = None]
  /\ last' = [NoCall EXCEPT !.op = "get_vector_store", !.store = u]
  /\ UNCHANGED <<exists, tables, addMode>>

\* index_chunks on u's store, called for repository r. shape "positional" is
\* the call main.py:318 makes, index_chunks(chunks, user_id, repo_id), which
\* binds table_name to the user id and batch_size to the repository id;
\* shape "keyword" is index_chunks(chunks, batch_size=batch_size).
IndexChunks(u, chunkList, shape, batch_size, r) ==
  LET table_name == IF shape = "positional" THEN u ELSE DefaultTable
      name == TableOf(u, table_name)
      before == tables[u][name]
      call == [NoCall EXCEPT !.op = "index_chunks", !.store = u, !.user_id = u,
                             !.repo_id = r]
  IN
  /\ u \in user_stores
  /\ TotalRows + Len(chunkList) <= MaxRows
  /\ IF not_chunks(chunkList)
     THEN \* return 0
          /\ last' = call
          /\ UNCHANGED <<exists, tables, cached>>
     ELSE /\ cached' = [cached EXCEPT ![u] = name]
          /\ exists' = [exists EXCEPT ![u] = ExistsAfterGet(u, table_name)]
          /\ IF shape = "positional" \/ addMode = "reject"
             THEN \* range(0, len(chunks), <str>) raises TypeError, or
                  \* table.add refuses the first batch
                  /\ last' = [call EXCEPT !.raised = TRUE]
                  /\ UNCHANGED tables
             ELSE LET after == AddBatches(before, chunkList, 0, batch_size, u, r)
                  IN /\ tables' = [tables EXCEPT ![u][name] = after]
                     /\ last' = [call EXCEPT !.ret = Len(after) - Len(before)]
  /\ UNCHANGED <<user_stores, addMode>>

\* search has no try block: an exception of embed_text or of the table search
\* leaves the function
search_raises(fault) == fault

\* search(query, user_id, repo_id, top_k) on u's store; `fault` says that
\* embedding the query or searching the table raises
Search(u, query, user_id, repo_id, top_k, fault) ==
  LET name == TableOf(u, DefaultTable)
      rows == tables[u][name]
      query_embedding == embed_text(query)
      call == [NoCall EXCEPT !.op = "search", !.store = u, !.user_id = user_id,
                             !.repo_id = repo_id, !.top_k = top_k, !.fault = fault]
  IN
  /\ u \in user_stores
  /\ cached' = [cached EXCEPT ![u] = name]
  /\ exists' = [exists EXCEPT ![u] = ExistsAfterGet(u, DefaultTable)]
  /\ IF search_raises(fault)
     THEN last' = [call EXCEPT !.raised = TRUE]
     ELSE \E order \in Rankings(rows, query_embedding) :
            LET results == Candidates(rows, order, query_embedding, top_k * OverFetch)
                filtered_results == Filtered(results, user_id, repo_id, top_k)
            IN last' = [call EXCEPT !.hits = filtered_results,
                                    !.ret = Len(filtered_results)]
  /\ UNCHANGED <<user_stores, tables, addMode>>

\* mutant of ClearRepo: _table is not reset after the table is dropped
ClearRepoKeepsHandle(u, user_id, repo_id, fault) ==
  LET name == TableOf(u, DefaultTable)
      ex == ExistsAfterGet(u, DefaultTable)
      all_data == tables[u][name]
      keep(r) == Kept(r, user_id, repo_id)
      filtered == SelectSeq(all_data, keep)
      rebuild == ~fault /\ all_data # <<>> /\ Len(filtered) < Len(all_data)
      call == [NoCall EXCEPT !.op = "clear_repo", !.store = u, !.user_id = user_id,
                             !.repo_id = repo_id, !.before = all_data,
                             !.fault = fault]
  IN
  /\ u \in user_stores
  /\ IF ~fault /\ ~rebuild
     THEN \* nothing to remove: only get_table has acted
          /\ cached' = [cached EXCEPT ![u] = name]
          /\ exists' = [exists EXCEPT ![u] = ex]
          /\ last' = call
          /\ UNCHANGED tables
     ELSE IF DefaultTable \notin ex
     THEN \* drop_table of a missing table raises, in the try block and again
          \* in the except block: the call raises with _table still set
          /\ cached' = [cached EXCEPT ![u] = name]
          /\ exists' = [exists EXCEPT ![u] = ex]
          /\ last' = [call EXCEPT !.raised = TRUE]
          /\ UNCHANGED tables
     ELSE \* the table is dropped and _table reset; a rebuild that keeps rows
          \* creates the table again, empty: the kept rows are not added back
          /\ cached' = [cached EXCEPT ![u] = name]
          /\ exists' = [exists EXCEPT ![u] =
                          IF rebuild /\ Len(filtered) > 0 THEN ex
                          ELSE ex \ {DefaultTable}]
          /\ tables' = [tables EXCEPT ![u][DefaultTable] = <<>>]
          /\ last' = call
  /\ UNCHANGED <<user_stores, addMode>>

\* clear_repo(user_id, repo_id) on u's store; `fault` says that reading the
\* rows (table.to_pandas) raises
ClearRepo(u, user_id, repo_id, fault) ==
  LET name == TableOf(u, DefaultTable)
      ex == ExistsAfterGet(u, DefaultTable)
      all_data == tables[u][name]
      keep(r) == Kept(r, user_id, repo_id)
      filtered == SelectSeq(all_data, keep)
      rebuild == ~fault /\ all_data # <<>> /\ Len(filtered) < Len(all_data)
      call == [NoCall EXCEPT !.op = "clear_repo", !.store = u, !.user_id = user_id,
                             !.repo_id = repo_id, !.before = all_data,
                             !.fault = fault]
  IN
  /\ u \in user_stores
  /\ IF ~fault /\ ~rebuild
     THEN \* nothing to remove: only get_table has acted
          /\ cached' = [cached EXCEPT ![u] = name]
          /\ exists' = [exists EXCEPT ![u] = ex]
          /\ last' = call
          /\ UNCHANGED tables
     ELSE IF DefaultTable \notin ex
     THEN \* drop_table of a missing table raises, in the try block and again
          \* in the except block: the call raises with _table still set
          /\ cached' = [cached EXCEPT ![u] = name]
          /\ exists' = [exists EXCEPT ![u] = ex]
          /\ last' = [call EXCEPT !.raised = TRUE]
          /\ UNCHANGED tables
     ELSE \* the table is dropped and _table reset; a rebuild that keeps rows
          \* creates the table again, empty: the kept rows are not added back
          /\ cached' = [cached EXCEPT ![u] = None]
          /\ exists' = [exists EXCEPT ![u] =
                          IF rebuild /\ Len(filtered) > 0 THEN ex
                          ELSE ex \ {DefaultTable}]
          /\ tables' = [tables EXCEPT ![u][DefaultTable] = <<>>]
          /\ last' = call
  /\ UNCHANGED <<user_stores, addMode>>

\* count() on u's store
Count(u) ==
  LET name == TableOf(u, DefaultTable)
  IN
  /\ u \in user_stores
  /\ cached' = [cached EXCEPT ![u] = name]
  /\ exists' = [exists EXCEPT ![u] = ExistsAfterGet(u, DefaultTable)]
  /\ last' = [NoCall EXCEPT !.op = "count", !.store = u, !.ret = Len(tables[u][name])]
  /\ UNCHANGED <<user_stores, tables, addMode>>

(***************************************************************************)
(* Chunker (indexer.py:121-223). A text is the sequence of its lines, the  *)
(* pieces between its newline characters (content.split('\n')), so the     *)
(* empty text is the one empty line; a line is a sequence of characters.   *)
(***************************************************************************)
\* lines a file may hold before it is no longer enumerated
MaxLines == 4

\* the max_chunk_size values chunk_file is called with
ChunkSizes == {4, 10}

LinePool ==
  { <<>>,                              \* an empty line
    <<" ", " ">>,                      \* a whitespace-only line
    <<"x", "=", "1">>,                 \* a statement
    <<"d", "e", "f", " ", "f">>,       \* "def f"
    <<" ", "d", "e", "f", " ", "g">>,  \* " def g": an indented declaration
    <<"x", "=", "1", "1", "1", "1", "1", "1">> } \* "x=111111": a long statement

Whitespace == {" ", "\t"}
\* the characters \w matches, among those the model's lines are written in
WordChars ==
  {"a", "b", "c", "d", "e", "f", "g", "h", "i", "j", "k", "l", "m", "n", "o", "p",
   "q", "r", "s", "t", "u", "v", "w", "x", "y", "z", "0", "1", "_"}

RECURSIVE SumLen(_)
SumLen(lines) == IF lines = <<>> THEN 0 ELSE Len(Head(lines)) + SumLen(Tail(lines))

\* len('\n'.join(lines))
JoinLen(lines) == IF lines = <<>> THEN 0 ELSE SumLen(lines) + Len(lines) - 1

\* str.strip()
RECURSIVE LStrip(_)
LStrip(t) == IF t # <<>> /\ Head(t) \in Whitespace THEN LStrip(Tail(t)) ELSE t

RECURSIVE RStrip(_)
RStrip(t) ==
  IF t # <<>> /\ t[Len(t)] \in Whitespace THEN RStrip(SubSeq(t, 1, Len(t) - 1)) ELSE t

Strip(t) == RStrip(LStrip(t))

\* '\n'.join(lines).strip() is empty: every line is whitespace
StripEmpty(lines) == \A i \in 1..Len(lines) : Strip(lines[i]) = <<>>

StartsWith(t, prefix) ==
  Len(t) >= Len(prefix) /\ SubSeq(t, 1, Len(prefix)) = prefix

\* re.match(prefix + r'\w+', t)
PrefixThenWord(t, prefix) ==
  StartsWith(t, prefix) /\ Len(t) > Len(prefix) /\ t[Len(prefix) + 1] \in WordChars

\* the first index from i on that holds no word character
RECURSIVE WordEnd(_, _)
WordEnd(t, i) == IF i <= Len(t) /\ t[i] \in WordChars THEN WordEnd(t, i + 1) ELSE i

\* re.match(prefix + r'\w+' + middle, t): \w+ cannot give back a character,
\* since middle starts with a space
PrefixWordThen(t, prefix, middle) ==
  LET j == WordEnd(t, Len(prefix) + 1)
  IN /\ StartsWith(t, prefix)
     /\ j > Len(prefix) + 1
     /\ Len(t) >= j + Len(middle) - 1
     /\ SubSeq(t, j, j + Len(middle) - 1) = middle

\* re.match(r'@\w+ func \w+', t)
AttrFunc(t) ==
  LET middle == <<" ", "f", "u", "n", "c", " ">>
      j == WordEnd(t, 2)
  IN /\ PrefixWordThen(t, <<"@">>, middle)
     /\ Len(t) >= j + Len(middle)
     /\ t[j + Len(middle)] \in WordChars

\* boundary_patterns, matched against line.strip()
IsBoundary(line) ==
  LET t == Strip(line)
  IN \/ PrefixThenWord(t, <<"d", "e", "f", " ">>)
     \/ PrefixThenWord(t, <<"a", "s", "y", "n", "c", " ", "d", "e", "f", " ">>)
     \/ PrefixThenWord(t, <<"c", "l", "a", "s", "s", " ">>)
     \/ PrefixThenWord(t, <<"f", "u", "n", "c", " ">>)
     \/ AttrFunc(t)
     \/ PrefixWordThen(t, <<"c", "o", "n", "s", "t", " ">>, <<" ", "=", " ">>)
     \/ StartsWith(t, <<"f", "u", "n", "c", "t", "i", "o", "n", " ">>)
     \/ StartsWith(t, <<"e", "x", "p", "o", "r", "t", " ">>)
     \/ StartsWith(t, <<"i", "m", "p", "o", "r", "t", " ">>)

\* should_split: length >= 70% of max_size at a boundary, or >= 2 * max_size
ShouldSplit(is_boundary, length, max_size) ==
  (is_boundary /\ 10 * length >= 7 * max_size) \/ length >= max_size * 2

\* mutant of Block: line_end one line short
BlockShort(file_path, chunk_lines, current_start) ==
  [file_path |-> file_path, content |-> chunk_lines,
   line_start |-> current_start,
   line_end |-> current_start + Len(chunk_lines) - 2,
   chunk_type |-> "block"]

Block(file_path, chunk_lines, current_start) ==
  [file_path |-> file_path, content |-> chunk_lines,
   line_start |-> current_start,
   line_end |-> current_start + Len(chunk_lines) - 1,
   chunk_type |-> "block"]

\* the loop of _split_into_chunks from line i on, then the last chunk
RECURSIVE SplitFrom(_, _, _, _, _, _, _)
SplitFrom(file_path, lines, max_size, i, out, current_chunk_lines, current_start) ==
  IF i > Len(lines)
  THEN IF current_chunk_lines # <<>> /\ ~StripEmpty(current_chunk_lines)
       THEN Append(out, Block(file_path, current_chunk_lines, current_start))
       ELSE out
  ELSE LET line == lines[i]
           is_boundary == IsBoundary(line)
           buffer == Append(current_chunk_lines, line)
           should_split == ShouldSplit(is_boundary, JoinLen(buffer), max_size)
       IN IF should_split /\ Len(buffer) > 1
          THEN LET chunk_lines == IF is_boundary
                                  THEN SubSeq(buffer, 1, Len(buffer) - 1)
                                  ELSE buffer
                   out2 == IF ~StripEmpty(chunk_lines)
                           THEN Append(out, Block(file_path, chunk_lines, current_start))
                           ELSE out
               IN SplitFrom(file_path, lines, max_size, i + 1, out2,
                            IF is_boundary THEN <<line>> ELSE <<>>, i)
          ELSE SplitFrom(file_path, lines, max_size, i + 1, out, buffer, current_start)

\* what the loop of _split_into_chunks decides at each line from line i on:
\* the line's number, whether it is a boundary, the length and the line count
\* of the buffer with the line appended, and whether the buffer is closed
RECURSIVE ScanFrom(_, _, _, _, _)
ScanFrom(lines, max_size, i, seen, current_chunk_lines) ==
  IF i > Len(lines)
  THEN seen
  ELSE LET line == lines[i]
           is_boundary == IsBoundary(line)
           buffer == Append(current_chunk_lines, line)
           should_split == ShouldSplit(is_boundary, JoinLen(buffer), max_size)
           closed == should_split /\ Len(buffer) > 1
       IN ScanFrom(lines, max_size, i + 1,
                   Append(seen, [line |-> i, is_boundary |-> is_boundary,
                                 length |-> JoinLen(buffer), held |-> Len(buffer),
                                 closed |-> closed]),
                   IF closed
                   THEN IF is_boundary THEN <<line>> ELSE <<>>
                   ELSE buffer)

split_decisions(lines, max_size) == ScanFrom(lines, max_size, 1, <<>>, <<>>)

split_into_chunks(file_path, lines, max_size) ==
  SplitFrom(file_path, lines, max_size, 1, <<>>, <<>>, 1)

\* mutant of chunk_file: "<" for "<="
chunk_file_strict(file_path, lines, max_size) ==
  IF JoinLen(lines) < max_size
  THEN << [file_path |-> file_path, content |-> lines, line_start |-> 1,
           line_end |-> Len(lines), chunk_type |-> "file"] >>
  ELSE split_into_chunks(file_path, lines, max_size)

\* chunk_file on a readable file
chunk_file(file_path, lines, max_size) ==
  IF JoinLen(lines) <= max_size
  THEN << [file_path |-> file_path, content |-> lines, line_start |-> 1,
           line_end |-> Len(lines), chunk_type |-> "file"] >>
  ELSE split_into_chunks(file_path, lines, max_size)

\* no chunk_file call made yet
NotChunked == [called |-> FALSE, result |-> <<>>]

ChunkIdle ==
  /\ file = <<>>
  /\ max_chunk_size = 0
  /\ chunks = NotChunked

\* the files chunk_file is applied to
Files == SeqsUpTo(LinePool, MaxLines) \ {<<>>}

ChunkInit ==
  /\ file \in Files
  /\ max_chunk_size \in ChunkSizes
  /\ chunks = NotChunked

\* chunks = chunk_file(file_path, max_chunk_size)
ChunkFile ==
  /\ ~chunks.called
  /\ file # <<>>
  /\ chunks' = [called |-> TRUE, result |-> chunk_file("f.py", file, max_chunk_size)]
  /\ UNCHANGED <<file, max_chunk_size>>

(***************************************************************************)
(* Discovery (indexer.py:27-118). A path is a sequence of segments, a      *)
(* segment and a path string are sequences of characters.                  *)
(***************************************************************************)
\* explicit paths one manual request may name
MaxPaths == 2

\* the repository root, resolved
RepoRoot == << <<"r">> >>

\* the files that may lie below the root, as paths relative to it
FileUniverse ==
  { << <<"a", ".", "p", "y">> >>,
    << <<".", "g", "i", "t">>, <<"c", ".", "p", "y">> >>,
    << <<"b", "u", "i", "l", "d">>, <<"b", ".", "p", "y">> >>,
    << <<"s", "r", "c">>, <<"m", ".", "t", "s">> >>,
    << <<".", "e", "n", "v">> >> }

\* what a manual request may name: files, a directory, a missing file
ManualCandidates == FileUniverse \cup { << <<"s", "r", "c">> >>, << <<"n", "o", ".", "p", "y">> >> }

\* the glob pattern lists of a guided request; the first is the default
PatternLists ==
  { << <<"*", ".", "p", "y">>, <<"*", ".", "s", "w", "i", "f", "t">>, <<"*", ".", "t", "s">> >>, << <<"*", ".", "p", "y">> >>, << <<"*">> >>, << <<"*">>, <<"*", ".", "p", "y">> >> }

\* settings.supported_extensions (config.py:38-42)
supported_extensions ==
  << <<".", "p", "y">>,
     <<".", "s", "w", "i", "f", "t">>,
     <<".", "j", "s">>,
     <<".", "t", "s">>,
     <<".", "t", "s", "x">>,
     <<".", "j", "s", "x">>,
     <<".", "g", "o">>,
     <<".", "r", "s">>,
     <<".", "j", "a", "v", "a">>,
     <<".", "k", "t">>,
     <<".", "c", "p", "p">>,
     <<".", "c">>,
     <<".", "h">>,
     <<".", "m", "d">>,
     <<".", "t", "x", "t">>,
     <<".", "j", "s", "o", "n">>,
     <<".", "y", "a", "m", "l">>,
     <<".", "y", "m", "l">> >>

\* skip_patterns of _should_index
skip_patterns ==
  << <<"*", "/", ".", "*">>,
     <<"*", "/", "_", "_", "p", "y", "c", "a", "c", "h", "e", "_", "_", "/", "*">>,
     <<"*", "/", "n", "o", "d", "e", "_", "m", "o", "d", "u", "l", "e", "s", "/", "*">>,
     <<"*", "/", ".", "g", "i", "t", "/", "*">>,
     <<"*", "/", "v", "e", "n", "v", "/", "*">>,
     <<"*", "/", ".", "v", "e", "n", "v", "/", "*">>,
     <<"*", "/", "b", "u", "i", "l", "d", "/", "*">>,
     <<"*", "/", "d", "i", "s", "t", "/", "*">>,
     <<"*", "/", ".", "n", "e", "x", "t", "/", "*">>,
     <<"*", "/", "P", "o", "d", "s", "/", "*">>,
     <<"*", "/", ".", "b", "u", "i", "l", "d", "/", "*">> >>

\* str(path): "/" before every segment of an absolute path
RECURSIVE PathStr(_)
PathStr(segs) == IF segs = <<>> THEN <<>> ELSE <<"/">> \o Head(segs) \o PathStr(Tail(segs))

\* fnmatch.fnmatch(name, pat) for patterns made of literal characters and "*"
RECURSIVE fnmatch(_, _)
fnmatch(name, pat) ==
  IF pat = <<>> THEN name = <<>>
  ELSE IF Head(pat) = "*"
       THEN fnmatch(name, Tail(pat)) \/ (name # <<>> /\ fnmatch(Tail(name), pat))
       ELSE name # <<>> /\ Head(name) = Head(pat) /\ fnmatch(Tail(name), Tail(pat))

\* the directories a set of files implies
DirsOf(files) == UNION {{SubSeq(f, 1, k) : k \in 1..(Len(f) - 1)} : f \in files}

IsFile(files, rel) == rel \in files
Exists(files, rel) == rel \in files \/ rel \in DirsOf(files)

\* _should_index(file_path)
should_index(files, rel) ==
  /\ \A i \in 1..Len(skip_patterns) :
       ~fnmatch(PathStr(RepoRoot \o rel), skip_patterns[i])
  /\ IsFile(files, rel)

\* repo.rglob(pattern): every entry below the root whose name matches, in the
\* order `walk` lists the entries
rglob(walk, pattern) ==
  LET hit(rel) == fnmatch(rel[Len(rel)], pattern)
  IN SelectSeq(walk, hit)

\* the loop over patterns of _discover_guided and _discover_full
RECURSIVE DiscoverByPatterns(_, _, _)
DiscoverByPatterns(files, walk, patterns) ==
  IF patterns = <<>> THEN <<>>
  ELSE LET ok(rel) == should_index(files, rel)
           found == SelectSeq(rglob(walk, Head(patterns)), ok)
       IN [i \in 1..Len(found) |-> PathStr(RepoRoot \o found[i])]
          \o DiscoverByPatterns(files, walk, Tail(patterns))

\* an absolute path: the segments from the file system root, after a first
\* segment that marks it
Absolute(segs) == << <<"/">> >> \o segs

\* Path(path).is_absolute()
is_absolute(path) == path # <<>> /\ Head(path) = <<"/">>

\* segs is root or lies below it
Under(root, segs) == Len(segs) >= Len(root) /\ SubSeq(segs, 1, Len(root)) = root

\* where an absolute path lies below the repository root, <<>> when it does
\* not: the tree describes the repository, no other directory holds a file
BelowRoot(segs) ==
  IF Under(RepoRoot, segs) THEN SubSeq(segs, Len(RepoRoot) + 1, Len(segs)) ELSE <<>>

\* _discover_manual: full_path = repo / path, or path when it is absolute
RECURSIVE discover_manual(_, _)
discover_manual(files, file_paths) ==
  IF file_paths = <<>> THEN <<>>
  ELSE LET path == Head(file_paths)
           full_path == IF is_absolute(path) THEN Tail(path) ELSE RepoRoot \o path
           rel == BelowRoot(full_path)
       IN (IF Exists(files, rel) /\ IsFile(files, rel)
           THEN << PathStr(full_path) >> ELSE <<>>)
          \o discover_manual(files, Tail(file_paths))

\* _discover_full
discover_full(files, walk, extensions) ==
  DiscoverByPatterns(files, walk, [i \in 1..Len(extensions) |-> <<"*">> \o extensions[i]])

Range(seq) == {seq[i] : i \in 1..Len(seq)}

\* the orders list(set(discovered)) may come in
SetOrders(seq) ==
  {o \in [1..Cardinality(Range(seq)) -> Range(seq)] : Range(o) = Range(seq)}

\* Path.rglob from the directory `dir`: the directory's entries as
\* os.scandir lists them, then the walk of each of them that is a directory,
\* one after the other. The order of os.scandir is the file system's: any.
RECURSIVE WalksBelow(_, _)
RECURSIVE WalksOfDirs(_, _)
WalksOfDirs(entries, ds) ==
  IF ds = <<>> THEN {<<>>}
  ELSE {w \o rest : w \in WalksBelow(entries, Head(ds)),
                    rest \in WalksOfDirs(entries, Tail(ds))}

WalksBelow(entries, dir) ==
  LET kids == {e \in entries : Len(e) = Len(dir) + 1 /\ SubSeq(e, 1, Len(dir)) = dir}
  IN UNION {{o \o rest : rest \in WalksOfDirs(entries, o)} : o \in Orders(kids)}

\* the walks of a tree from its root
Walks(entries) == WalksBelow(entries, <<>>)

\* mutant of repo_exists: the root is taken to exist
repo_exists_always(t) == TRUE

\* repo.exists() (indexer.py:48)
repo_exists(t) == t.root_exists

NotDiscovered == [called |-> FALSE, raised |-> FALSE, result |-> <<>>]

DiscIdle ==
  /\ tree = [root_exists |-> FALSE, files |-> {}]
  /\ request = [mode |-> "none", file_paths |-> <<>>, patterns |-> <<>>]
  /\ discovered = NotDiscovered

Requests ==
  {[mode |-> "manual", file_paths |-> fp, patterns |-> <<>>] :
      fp \in SeqsUpTo(ManualCandidates, MaxPaths)}
  \cup {[mode |-> "guided", file_paths |-> <<>>, patterns |-> ps] :
      ps \in PatternLists \cup {<<>>}}
  \cup {[mode |-> "full", file_paths |-> <<>>, patterns |-> <<>>]}

DiscInit ==
  /\ tree \in {[root_exists |-> TRUE, files |-> fs] : fs \in SUBSET FileUniverse}
           \cup {[root_exists |-> FALSE, files |-> {}]}
  /\ request \in Requests
  /\ discovered = NotDiscovered

\* discovered = discover_files(repo_path, mode, file_paths, patterns), where
\* repo_path names the tree t
DiscoverFilesIn(t) ==
  LET files == t.files
      walks == Walks(files \cup DirsOf(files))
  IN
  /\ ~discovered.called
  /\ request.mode # "none"
  /\ IF ~repo_exists(t)
     THEN \* raise ValueError
          discovered' = [called |-> TRUE, raised |-> TRUE, result |-> <<>>]
     ELSE CASE request.mode = "manual" ->
                 discovered' = [called |-> TRUE, raised |-> FALSE,
                                result |-> discover_manual(files, request.file_paths)]
            [] request.mode = "guided" ->
                 LET patterns == IF request.patterns = <<>>
                                 THEN << <<"*", ".", "p", "y">>, <<"*", ".", "s", "w", "i", "f", "t">>, <<"*", ".", "t", "s">> >>
                                 ELSE request.patterns
                 IN \E walk \in walks :
                      \E o \in SetOrders(DiscoverByPatterns(files, walk, patterns)) :
                        discovered' = [called |-> TRUE, raised |-> FALSE, result |-> o]
            [] OTHER ->
                 \E walk \in walks :
                   discovered' = [called |-> TRUE, raised |-> FALSE,
                                  result |-> discover_full(files, walk, supported_extensions)]
  /\ UNCHANGED <<tree, request>>

\* discover_files on the repository
DiscoverFiles == DiscoverFilesIn(tree)

(***************************************************************************)
(* index_repository (indexer.py:226-251): discover_files, then chunk_file  *)
(* on every discovered path with the default max_chunk_size, yielding the  *)
(* chunks one by one: the generator is suspended at every yield and its    *)
(* consumer runs in between. chunk_file opens the file itself; an open()   *)
(* or read that raises is caught and gives no chunk.                       *)
(***************************************************************************)
\* max_chunk_size of chunk_file when the caller gives none
DefaultMaxChunkSize == 1000

\* a line of n characters
LongLine(n) == [k \in 1..n |-> "x"]

\* a file below the default size, and one above it with a declaration inside
SmallFile == << <<"x", "=", "1">> >>
BigFile == << LongLine(700), <<"d", "e", "f", " ", "f">>, LongLine(300) >>

\* what open()/read() gives for a path: the text, or an exception
Unreadable == [readable |-> FALSE, lines |-> <<>>]
FileStates == {Unreadable, [readable |-> TRUE, lines |-> SmallFile],
               [readable |-> TRUE, lines |-> BigFile]}

\* the relative path of a discovered absolute path
RelOf(path) == CHOOSE rel \in FileUniverse : PathStr(RepoRoot \o rel) = path

\* mutant of chunk_file_on: the read error is not caught
chunk_file_on_uncaught(d, file_path, max_size) ==
  LET f == d[RelOf(file_path)]
  IN IF ~f.readable
     THEN [raised |-> TRUE, chunks |-> <<>>]
     ELSE [raised |-> FALSE, chunks |-> chunk_file(file_path, f.lines, max_size)]

\* chunk_file(file_path, max_chunk_size) on the disk d
chunk_file_on(d, file_path, max_size) ==
  LET f == d[RelOf(file_path)]
  IN IF ~f.readable
     THEN \* except Exception: print, return []
          [raised |-> FALSE, chunks |-> <<>>]
     ELSE [raised |-> FALSE, chunks |-> chunk_file(file_path, f.lines, max_size)]

\* i: the position in `files`; buf: the chunks of files[i] not yet yielded;
\* out: what the consumer has received
NotStarted == [pc |-> "idle", i |-> 0, buf |-> <<>>, out |-> <<>>]

RepoIdle ==
  /\ disk = [f \in FileUniverse |-> Unreadable]
  /\ repo = NotStarted

\* no request being served
NoRequest ==
  [pc |-> "idle", endpoint |-> "none", user |-> None, query |-> None, top_k |-> 0,
   repo_id |-> None, repo_path |-> None, status |-> 0, results |-> <<>>,
   files_indexed |-> 0, chunks_created |-> 0, cleared |-> FALSE, indexed |-> FALSE]

ApiIdle == http = NoRequest

\* the tasks of the event loop, one for each request being served
Tasks == {"t1", "t2"}

\* no request body
NoBody == [mode |-> "none", file_paths |-> <<>>, patterns |-> <<>>]

\* the locals of a handler that has not started; call: the method of the
\* store the handler is in, None when it is in none
NoFrame ==
  [http |-> NoRequest, request |-> NoBody, discovered |-> NotDiscovered,
   repo |-> NotStarted, call |-> None]

\* a task no request was accepted for. state: "waiting" before the handler is
\* called, "running", "suspended" at an await, "sent" once the response is
\* out; frame: the locals of the handler while the task does not run;
\* dropped is history: the clear_repo call of the request dropped the table
NoTask ==
  [state |-> "none", endpoint |-> "none", repo_id |-> None, body |-> NoBody,
   dropped |-> FALSE, frame |-> NoFrame]

SrvIdle == loop = [running |-> None, call |-> None, tasks |-> [q \in Tasks |-> NoTask]]

\* the threads that call embed_text / embed_batch
Embedders == {"t1", "t2", "t3"}

LoadIdle ==
  /\ embedders = [t \in Embedders |-> [pc |-> "idle", model |-> 0]]
  /\ model_cache = 0
  /\ constructed = 0
  /\ used = {}

ExtIdle == RepoIdle /\ ApiIdle /\ LoadIdle /\ SrvIdle

(***************************************************************************)
(* get_embedding_model under concurrent callers (search.py:48-72). The     *)
(* function is wrapped in functools.lru_cache(maxsize=1) and takes no      *)
(* lock: lru_cache looks the key up, calls the function on a miss without  *)
(* holding anything, and on return stores the result unless the key was    *)
(* stored meanwhile; the caller gets the result of its own call.           *)
(***************************************************************************)
\* caller t enters embed_text or embed_batch: get_embedding_model() looks
\* the cache up
EmbLookup(t) ==
  /\ embedders[t].pc = "idle"
  /\ embedders' = [embedders EXCEPT ![t] =
                     IF model_cache = 0
                     THEN [pc |-> "load", model |-> 0]
                     ELSE [pc |-> "encode", model |-> model_cache]]
  /\ UNCHANGED <<model_cache, constructed, used>>

\* model = SentenceTransformer(...); model.encode("warmup")
EmbLoad(t) ==
  /\ embedders[t].pc = "load"
  /\ constructed' = constructed + 1
  /\ embedders' = [embedders EXCEPT ![t] = [pc |-> "store", model |-> constructed + 1]]
  /\ UNCHANGED <<model_cache, used>>

\* lru_cache stores the result if the cache is still empty, and returns it
EmbStore(t) ==
  /\ embedders[t].pc = "store"
  /\ model_cache' = IF model_cache = 0 THEN embedders[t].model ELSE model_cache
  /\ embedders' = [embedders EXCEPT ![t].pc = "encode"]
  /\ UNCHANGED <<constructed, used>>

\* model.encode(...) on the instance the caller got
EmbEncode(t) ==
  /\ embedders[t].pc = "encode"
  /\ used' = used \cup {<<t, embedders[t].model>>}
  /\ embedders' = [embedders EXCEPT ![t] = [pc |-> "idle", model |-> 0]]
  /\ UNCHANGED <<model_cache, constructed>>

\* the trees index_repository is run on
RepoFiles ==
  { << <<"a", ".", "p", "y">> >>,
    << <<"b", "u", "i", "l", "d">>, <<"b", ".", "p", "y">> >>,
    << <<"s", "r", "c">>, <<"m", ".", "t", "s">> >> }

RepoInit ==
  /\ tree \in {[root_exists |-> TRUE, files |-> fs] : fs \in SUBSET RepoFiles}
           \cup {[root_exists |-> FALSE, files |-> {}]}
  /\ request \in Requests
  /\ discovered = NotDiscovered
  /\ disk \in {d \in [FileUniverse -> FileStates] :
                 \A f \in FileUniverse \ tree.files : d[f] = Unreadable}
  /\ repo = NotStarted

\* files = discover_files(repo_path, mode, file_paths, patterns), where
\* repo_path names the tree t
IndexRepoDiscoverIn(t) ==
  /\ repo.pc = "idle"
  /\ DiscoverFilesIn(t)
  /\ repo' = [pc |-> IF discovered'.raised THEN "raised" ELSE "chunking",
              i |-> 1, buf |-> <<>>, out |-> <<>>]
  /\ UNCHANGED disk

\* index_repository on the repository
IndexRepoDiscover == IndexRepoDiscoverIn(tree)

\* one round of `for file_path in files`: chunks = chunk_file(file_path); a
\* file without chunks is passed over, and after the last file the
\* generator ends
IndexRepoChunk ==
  /\ repo.pc = "chunking"
  /\ IF repo.i > Len(discovered.result)
     THEN repo' = [repo EXCEPT !.pc = "done"]
     ELSE LET r == chunk_file_on(disk, discovered.result[repo.i], DefaultMaxChunkSize)
          IN repo' = IF r.raised THEN [repo EXCEPT !.pc = "raised"]
                     ELSE IF r.chunks = <<>> THEN [repo EXCEPT !.i = repo.i + 1]
                     ELSE [repo EXCEPT !.pc = "yielding", !.buf = r.chunks]
  /\ UNCHANGED <<disk, discVars>>

\* one round of `for chunk in chunks`: yield chunk; the generator stays
\* suspended there until the consumer asks for the next chunk
IndexRepoYield ==
  /\ repo.pc = "yielding"
  /\ repo' = IF Len(repo.buf) = 1
             THEN [repo EXCEPT !.pc = "chunking", !.i = repo.i + 1, !.buf = <<>>,
                               !.out = Append(repo.out, Head(repo.buf))]
             ELSE [repo EXCEPT !.buf = Tail(repo.buf),
                               !.out = Append(repo.out, Head(repo.buf))]
  /\ UNCHANGED <<disk, discVars>>

(***************************************************************************)
(* The /search handler (main.py:339-388) and the search_code function      *)
(* (search.py:290-303). Both get the caller's store and then call          *)
(* store.search(query, top_k): the second positional parameter of search   *)
(* is user_id, so user_id is bound to the requested top_k, and top_k and   *)
(* repo_id keep their defaults. A handler runs to its end before the event *)
(* loop starts another.                                                    *)
(***************************************************************************)
\* top_k of VectorStore.search when the caller gives none
DefaultTopK == 5

\* a Python int where a str is expected: it is equal to no str
PyInt(k) == "int:" \o ToString(k)

\* the callers of store.search
SearchEntries == {"/search", "search_code"}

\* how store.search(query, top_k) binds the parameters of search
SearchArgs(user_id, top_k, repo_id) ==
  [user_id |-> PyInt(top_k), repo_id |-> None, top_k |-> DefaultTopK]

\* store = get_vector_store(user_id)
ApiSearchOpen(entry, u, query, top_k, repo_id) ==
  /\ http.pc \in {"idle", "done"}
  /\ IF u \in user_stores
     THEN UNCHANGED <<user_stores, exists, tables, cached, addMode, last>>
     ELSE GetVectorStore(u)
  /\ http' = [NoRequest EXCEPT !.pc = "store", !.endpoint = entry, !.user = u,
                               !.query = query, !.top_k = top_k, !.repo_id = repo_id]

\* results, latency_ms = store.search(query, top_k), then the response; an
\* exception becomes HTTP 500 in the handler
ApiSearchCall ==
  /\ http.pc = "store"
  /\ http.endpoint \in SearchEntries
  /\ LET args == SearchArgs(http.user, http.top_k, http.repo_id)
     IN \E fault \in BOOLEAN :
          Search(http.user, http.query, args.user_id, args.repo_id, args.top_k, fault)
  /\ http' = [http EXCEPT !.pc = "done",
                          !.status = IF last'.raised THEN 500 ELSE 200,
                          !.results = last'.hits]

(***************************************************************************)
(* The /index handler (main.py:244-337): validation of the request, the    *)
(* caller's store, clear_repo, index_repo collected into a list, then      *)
(* either the "no files found" response or index_chunks(chunks, user_id,   *)
(* repo_id). Every exception but HTTPException becomes HTTP 500.           *)
(***************************************************************************)
storeCore == <<user_stores, exists, tables, cached, addMode, last>>

\* mutant of NoFilesFound: the empty list is passed on to index_chunks
NoFilesFoundNever(chunkList) == FALSE

\* `if not chunks` of the handler
NoFilesFound(chunkList) == chunkList = <<>>

\* directories beside the repository root
Elsewhere == << <<"w">> >>
Outside == << <<"o">> >>

\* the working directory of the server
WorkDirs == {RepoRoot, Elsewhere, Outside}

\* the allowlist: never empty (path_validator.py:36-39)
AllowLists == {{RepoRoot}, {Elsewhere}, {RepoRoot, Elsewhere}}

\* how the request writes repo_path: the root as it is, the root with a
\* blank after it (a name no directory has), or blanks only
RepoPaths == {"plain", "padded", "blank"}

\* os.path.abspath(path) in the working directory cwd
abspath(cwd, path) == IF is_absolute(path) THEN path ELSE Absolute(cwd \o path)

\* PathValidator.is_path_allowed(path)
is_path_allowed(allowed_paths, cwd, path) ==
  \E allowed_root \in allowed_paths : Under(allowed_root, Tail(abspath(cwd, path)))

\* PathValidator.validate_paths(paths), when no path is refused
validate_paths(cwd, paths) == [i \in 1..Len(paths) |-> abspath(cwd, paths[i])]

\* the tree discover_files finds under the repo_path of the request: the
\* handler validates the stripped path and passes on the path as received
TreeAt(repo_path) ==
  IF repo_path = "padded" THEN [root_exists |-> FALSE, files |-> {}] ELSE tree

\* the request is validated, its file_paths replaced by the validated ones
\* and the caller's store fetched; r is the repo_id derived from the user
\* and the path
ApiIndexStart(u, r, allowed_paths, cwd, repo_path) ==
  LET req == [NoRequest EXCEPT !.endpoint = "/index", !.user = u, !.repo_id = r,
                               !.repo_path = repo_path]
      refused(status) ==
        /\ http' = [req EXCEPT !.pc = "done", !.status = status]
        /\ UNCHANGED <<storeCore, request>>
  IN
  /\ http.pc = "idle"
  /\ request.mode # "none"
  /\ IF repo_path = "blank"
     THEN refused(400)
     ELSE IF ~is_path_allowed(allowed_paths, cwd, Absolute(RepoRoot))
     THEN refused(403)
     ELSE IF ~repo_exists(tree)
     THEN refused(400)
     ELSE IF \E i \in 1..Len(request.file_paths) :
               ~is_path_allowed(allowed_paths, cwd, request.file_paths[i])
     THEN refused(403)
     ELSE /\ request' = [request EXCEPT !.file_paths = validate_paths(cwd, @)]
          /\ http' = [req EXCEPT !.pc = "store"]
          /\ IF u \in user_stores THEN UNCHANGED storeCore ELSE GetVectorStore(u)
  /\ UNCHANGED <<tree, discovered, repoVars>>

\* store.clear_repo(user_id, repo_id)
ApiIndexClear ==
  /\ http.pc = "store"
  /\ http.endpoint = "/index"
  /\ \E fault \in BOOLEAN : ClearRepo(http.user, http.user, http.repo_id, fault)
  /\ http' = IF last'.raised
             THEN [http EXCEPT !.pc = "done", !.status = 500]
             ELSE [http EXCEPT !.pc = "collect", !.cleared = TRUE]
  /\ UNCHANGED <<discVars, repoVars>>

\* chunks = list(index_repo(...)): the generator is started
ApiIndexDiscover ==
  /\ http.pc = "collect"
  /\ IndexRepoDiscoverIn(TreeAt(http.repo_path))
  /\ http' = IF repo'.pc = "raised"
             THEN [http EXCEPT !.pc = "done", !.status = 500]
             ELSE http
  /\ UNCHANGED storeCore

\* chunks = list(index_repo(...)): the generator is resumed
ApiIndexChunk ==
  /\ http.pc = "collect"
  /\ IndexRepoChunk
  /\ http' = IF repo'.pc = "raised"
             THEN [http EXCEPT !.pc = "done", !.status = 500]
             ELSE http
  /\ UNCHANGED storeCore

\* chunks = list(index_repo(...)): the generator yields a chunk
ApiIndexYield ==
  /\ http.pc = "collect"
  /\ IndexRepoYield
  /\ UNCHANGED <<http, storeCore>>

\* the file paths of a list of chunks
FilePaths(chunkList) == {chunkList[i].file_path : i \in 1..Len(chunkList)}

\* the rest of the handler once the list is complete
ApiIndexFinish ==
  LET u == http.user
      chunkList == repo.out
      name == TableOf(u, u)
  IN
  /\ http.pc = "collect"
  /\ repo.pc = "done"
  /\ IF NoFilesFound(chunkList)
     THEN \* "No files found to index"
          /\ http' = [http EXCEPT !.pc = "done", !.status = 200]
          /\ UNCHANGED storeCore
     ELSE IF not_chunks(chunkList)
     THEN \* index_chunks returns 0 at once
          /\ http' = [http EXCEPT !.pc = "done", !.status = 200, !.indexed = TRUE,
                                  !.files_indexed = Cardinality(FilePaths(chunkList))]
          /\ last' = [NoCall EXCEPT !.op = "index_chunks", !.store = u, !.user_id = u,
                                    !.repo_id = http.repo_id]
          /\ UNCHANGED <<user_stores, exists, tables, cached, addMode>>
     ELSE \* index_chunks(chunks, user_id, repo_id): get_table(user_id), then
          \* range(0, len(chunks), repo_id) raises TypeError
          /\ http' = [http EXCEPT !.pc = "done", !.status = 500, !.indexed = TRUE]
          /\ cached' = [cached EXCEPT ![u] = name]
          /\ exists' = [exists EXCEPT ![u] = ExistsAfterGet(u, u)]
          /\ last' = [NoCall EXCEPT !.op = "index_chunks", !.store = u, !.user_id = u,
                                    !.repo_id = http.repo_id, !.raised = TRUE]
          /\ UNCHANGED <<user_stores, tables, addMode>>
  /\ UNCHANGED <<discVars, repoVars>>

(***************************************************************************)
(* The handler of DELETE /repos/{repo_id} (main.py:456-475): the caller's  *)
(* store, then clear_repo. Every exception but HTTPException becomes HTTP  *)
(* 500.                                                                    *)
(***************************************************************************)
\* store = get_vector_store(user_id)
ApiDeleteStart(u, r) ==
  /\ http.pc = "idle"
  /\ http' = [NoRequest EXCEPT !.pc = "store", !.endpoint = "/repos", !.user = u,
                               !.repo_id = r]
  /\ IF u \in user_stores THEN UNCHANGED storeCore ELSE GetVectorStore(u)
  /\ UNCHANGED <<discVars, repoVars>>

\* store.clear_repo(user_id, repo_id), then {"success": True}
ApiDeleteClear ==
  /\ http.pc = "store"
  /\ http.endpoint = "/repos"
  /\ \E fault \in BOOLEAN : ClearRepo(http.user, http.user, http.repo_id, fault)
  /\ http' = IF last'.raised
             THEN [http EXCEPT !.pc = "done", !.status = 500]
             ELSE [http EXCEPT !.pc = "done", !.status = 200, !.cleared = TRUE]
  /\ UNCHANGED <<discVars, repoVars>>

(***************************************************************************)
(* Requests served at the same time (main.py:80-97, 625-661). uvicorn runs *)
(* the application on one event loop in one thread: each request is a task *)
(* of that loop, and a task gives up the loop only at an await. The        *)
(* middleware awaits call_next(request), inside which the handler is       *)
(* called; the handlers of /index and /repos/{repo_id} are coroutines      *)
(* without an await. A task can therefore be made to wait before its       *)
(* handler is called and after the handler has returned, and nowhere in    *)
(* between.                                                                *)
(***************************************************************************)
\* mutant of AwaitPoint: a handler can be suspended at each of its statements
AwaitPointAnywhere(pc) == TRUE

\* where a handler that has been called gives up the event loop: only once
\* it has returned, when call_next is awaited for the response
AwaitPoint(pc) == pc = "done"

\* the locals of the handler that runs; of a handler that has returned only
\* the response is left
Frame ==
  IF http.pc = "done" THEN [NoFrame EXCEPT !.http = http]
  ELSE [http |-> http, request |-> request, discovered |-> discovered, repo |-> repo,
        call |-> loop.call]

\* a request arrives and its task waits for the event loop
SrvAccept(q, endpoint, r, body) ==
  /\ loop.tasks[q].state = "none"
  /\ loop' = [loop EXCEPT !.tasks[q] =
                [NoTask EXCEPT !.state = "waiting", !.endpoint = endpoint,
                               !.repo_id = r, !.body = body]]
  /\ UNCHANGED <<http, storeCore, discVars, repoVars>>

\* the event loop is free and runs task q: its handler is called, or goes
\* on where it gave up the loop
SrvResume(q) ==
  LET task == loop.tasks[q]
      f == IF task.state = "waiting" THEN [NoFrame EXCEPT !.request = task.body]
           ELSE task.frame
  IN
  /\ loop.running = None
  /\ task.state \in {"waiting", "suspended"}
  /\ http' = f.http
  /\ request' = f.request
  /\ discovered' = f.discovered
  /\ repo' = f.repo
  /\ loop' = [loop EXCEPT !.running = q, !.call = f.call,
                          !.tasks[q].state = "running", !.tasks[q].frame = NoFrame]
  /\ UNCHANGED <<storeCore, tree, disk>>

\* the task that runs gives up the event loop at an await
SrvSuspend ==
  /\ loop.running # None
  /\ AwaitPoint(http.pc)
  /\ loop' = [loop EXCEPT !.running = None, !.call = None,
                          !.tasks[loop.running].state = "suspended",
                          !.tasks[loop.running].frame = Frame]
  /\ http' = NoRequest
  /\ request' = NoBody
  /\ discovered' = NotDiscovered
  /\ repo' = NotStarted
  /\ UNCHANGED <<storeCore, tree, disk>>

\* the response of the handler is sent and the task ends
SrvRespond ==
  /\ loop.running # None
  /\ http.pc = "done"
  /\ loop' = [loop EXCEPT !.running = None, !.call = None,
                          !.tasks[loop.running].state = "sent",
                          !.tasks[loop.running].frame = Frame]
  /\ http' = NoRequest
  /\ request' = NoBody
  /\ discovered' = NotDiscovered
  /\ repo' = NotStarted
  /\ UNCHANGED <<storeCore, tree, disk>>

\* the handler of the running task starts: validation for /index, then
\* get_vector_store
SrvStart(u, allowed_paths, cwd, repo_path) ==
  LET task == loop.tasks[loop.running]
  IN
  /\ loop.running # None
  /\ IF task.endpoint = "/index"
     THEN ApiIndexStart(u, task.repo_id, allowed_paths, cwd, repo_path)
     ELSE ApiDeleteStart(u, task.repo_id)
  /\ UNCHANGED loop

\* the handler calls store.clear_repo(user_id, repo_id): the method is entered
SrvEnterClear ==
  /\ loop.running # None
  /\ loop.call = None
  /\ http.pc = "store"
  /\ loop' = [loop EXCEPT !.call = "clear_repo"]
  /\ UNCHANGED <<http, storeCore, discVars, repoVars>>

\* clear_repo runs and returns to the handler, or raises; it leaves _table
\* unset exactly when it has dropped the table
SrvClear ==
  LET u == http.user
  IN
  /\ loop.running # None
  /\ loop.call = "clear_repo"
  /\ ApiIndexClear \/ ApiDeleteClear
  /\ loop' = [loop EXCEPT !.call = None,
                          !.tasks[loop.running].dropped = (cached'[u] = None)]

\* chunks = list(index_repo(...)) of the /index handler, step by step
SrvCollect ==
  /\ loop.running # None
  /\ loop.call = None
  /\ ApiIndexDiscover \/ ApiIndexChunk \/ ApiIndexYield
  /\ UNCHANGED loop

\* the handler calls store.index_chunks(chunks, user_id, repo_id): the method
\* is entered
SrvEnterIndex ==
  /\ loop.running # None
  /\ loop.call = None
  /\ http.pc = "collect"
  /\ repo.pc = "done"
  /\ ~NoFilesFound(repo.out)
  /\ loop' = [loop EXCEPT !.call = "index_chunks"]
  /\ UNCHANGED <<http, storeCore, discVars, repoVars>>

\* the rest of the /index handler: the "no files found" response, or
\* index_chunks runs and the handler ends
SrvFinish ==
  /\ loop.running # None
  /\ IF NoFilesFound(repo.out) THEN loop.call = None ELSE loop.call = "index_chunks"
  /\ ApiIndexFinish
  /\ loop' = [loop EXCEPT !.call = None]

(***************************************************************************)
(* get_vector_store under concurrent callers (search.py:268-287). The      *)
(* function takes no lock; a caller can be suspended between the test      *)
(* `user_id not in _user_stores` and the construction of the store,        *)
(* between the construction and the assignment to _user_stores, and        *)
(* between the assignment and the return.                                  *)
(***************************************************************************)
\* VectorStore instances constructed before get_vector_store is no longer offered
MaxStores == 3

Callers == {"t1", "t2"}

\* store: the instance the caller constructed and has not assigned yet
NotCalling == [pc |-> "idle", user_id |-> None, store |-> 0]

RegIdle ==
  /\ callers = [t \in Callers |-> NotCalling]
  /\ registry = [u \in Users |-> 0]
  /\ built = <<>>
  /\ returned = {}

\* user_id not in _user_stores
lookup_misses(reg, user_id) == reg[user_id] = 0

\* caller t enters get_vector_store(u) and evaluates the test
GvsLookup(t, u) ==
  /\ callers[t].pc = "idle"
  /\ Len(built) < MaxStores
  /\ callers' = [callers EXCEPT ![t] =
                   [pc |-> IF lookup_misses(registry, u) THEN "construct" ELSE "return",
                    user_id |-> u, store |-> 0]]
  /\ UNCHANGED <<registry, built, returned>>

\* VectorStore(db_path): the right-hand side of the assignment
GvsConstruct(t) ==
  /\ callers[t].pc = "construct"
  /\ built' = Append(built, callers[t].user_id)
  /\ callers' = [callers EXCEPT ![t].pc = "assign", ![t].store = Len(built) + 1]
  /\ UNCHANGED <<registry, returned>>

\* _user_stores[user_id] = <the instance constructed>
GvsAssign(t) ==
  /\ callers[t].pc = "assign"
  /\ registry' = [registry EXCEPT ![callers[t].user_id] = callers[t].store]
  /\ callers' = [callers EXCEPT ![t].pc = "return", ![t].store = 0]
  /\ UNCHANGED <<built, returned>>

\* return _user_stores[user_id]
GvsReturn(t) ==
  /\ callers[t].pc = "return"
  /\ returned' = returned \cup {<<callers[t].user_id, registry[callers[t].user_id]>>}
  /\ callers' = [callers EXCEPT ![t] = NotCalling]
  /\ UNCHANGED <<registry, built>>

(***************************************************************************)
(* index_chunks and clear_repo in flight on one store (search.py:109-254). *)
(* Neither takes a lock; each is a sequence of storage calls, and when the *)
(* two are called from different threads a call of the other can run       *)
(* between any two of them.                                                *)
(***************************************************************************)
\* the value of `table` when get_table returned None
NoHandle == 0 - 1

\* handle: the table the local variable `table` refers to, named by the
\* number of drops before it was opened or created; found: what the test
\* `table_name in self.db.table_names()` gave
NotIndexing ==
  [pc |-> "idle", handle |-> 0, found |-> FALSE, chunks |-> <<>>, i |-> 0,
   batch_size |-> 0, repo_id |-> None]

NotClearing ==
  [pc |-> "idle", handle |-> 0, found |-> FALSE, all_data |-> <<>>, repo_id |-> None]

MutIdle ==
  /\ idx = NotIndexing
  /\ clr = NotClearing
  /\ gen = 0
  /\ stale = FALSE
  /\ cachedGen = 0

\* a handle is live while the table it was taken of has not been dropped
Live(handle) == handle = gen

\* index_chunks(chunks, batch_size=batch_size) enters get_table and reads
\* self._table: a cached handle is returned as it is
IdxStart(u, chunkList, batch_size, r) ==
  /\ idx.pc = "idle"
  /\ u \in user_stores
  /\ ~not_chunks(chunkList)
  /\ TotalRows + Len(chunkList) <= MaxRows
  /\ idx' = [pc |-> IF cached[u] # None THEN "opened" ELSE "names",
             handle |-> IF cached[u] # None THEN cachedGen ELSE NoHandle,
             found |-> FALSE, chunks |-> chunkList, i |-> 0,
             batch_size |-> batch_size, repo_id |-> r]
  /\ UNCHANGED <<tables, cached, exists, clr, gen, stale, cachedGen>>

\* get_table: table_name in self.db.table_names()
IdxNames(u) ==
  /\ idx.pc = "names"
  /\ idx' = [idx EXCEPT !.pc = "get", !.found = DefaultTable \in exists[u]]
  /\ UNCHANGED <<tables, cached, exists, clr, gen, stale, cachedGen>>

\* get_table: self.db.open_table(table_name), which raises out of
\* index_chunks when the table is gone, or
\* self.db.create_table(table_name, mode="overwrite"), which leaves an empty
\* table whatever was there
IdxGet(u) ==
  /\ idx.pc = "get"
  /\ IF idx.found
     THEN /\ idx' = IF DefaultTable \in exists[u]
                    THEN [idx EXCEPT !.pc = "assign", !.handle = gen]
                    ELSE NotIndexing
          /\ UNCHANGED <<tables, exists>>
     ELSE /\ exists' = [exists EXCEPT ![u] = @ \cup {DefaultTable}]
          /\ tables' = [tables EXCEPT ![u][DefaultTable] = <<>>]
          /\ idx' = [idx EXCEPT !.pc = "assign", !.handle = gen]
  /\ UNCHANGED <<cached, clr, gen, stale, cachedGen>>

\* get_table: self._table = <the handle opened or created>
IdxAssign(u) ==
  /\ idx.pc = "assign"
  /\ cached' = [cached EXCEPT ![u] = DefaultTable]
  /\ cachedGen' = idx.handle
  /\ idx' = [idx EXCEPT !.pc = "take"]
  /\ UNCHANGED <<tables, exists, clr, gen, stale>>

\* get_table: return self._table, read again after the assignment
IdxTake(u) ==
  /\ idx.pc = "take"
  /\ idx' = [idx EXCEPT !.pc = "opened",
                        !.handle = IF cached[u] = None THEN NoHandle ELSE cachedGen]
  /\ UNCHANGED <<tables, cached, exists, clr, gen, stale, cachedGen>>

\* one turn of the loop of index_chunks: embed a batch and table.add it on
\* the handle get_table returned; the call returns after the last batch
IdxAdd(u) ==
  LET batch == SubSeq(idx.chunks, idx.i + 1, Min(idx.i + idx.batch_size, Len(idx.chunks)))
      dropped == idx.handle # NoHandle /\ ~Live(idx.handle)
  IN
  /\ idx.pc = "opened"
  /\ stale' = (stale \/ dropped)
  /\ IF addMode = "reject" \/ ~Live(idx.handle)
     THEN \* table.add raises (`table` is None, or the dict is rejected), or
          \* writes to a table that is no longer the user's: no row reaches
          \* the table
          /\ idx' = NotIndexing
          /\ UNCHANGED tables
     ELSE /\ tables' = [tables EXCEPT ![u][DefaultTable] =
                          AddBatches(@, batch, 0, idx.batch_size, u, idx.repo_id)]
          /\ idx' = IF idx.i + idx.batch_size >= Len(idx.chunks)
                    THEN NotIndexing
                    ELSE [idx EXCEPT !.i = idx.i + idx.batch_size]
  /\ UNCHANGED <<cached, exists, clr, gen, cachedGen>>

\* mutant of IdxFail: the rows of the earlier batches are taken back
IdxFailRollback(u) ==
  /\ idx.pc = "opened"
  /\ idx' = [idx EXCEPT !.pc = "raised"]
  /\ tables' = [tables EXCEPT ![u][DefaultTable] =
                  SubSeq(@, 1, Len(@) - Min(idx.i, Len(@)))]
  /\ UNCHANGED <<cached, exists, clr, gen, stale, cachedGen>>

\* one turn of the loop of index_chunks in which embed_batch or table.add
\* raises: there is no try block, the exception leaves index_chunks and the
\* batch adds nothing
IdxFail(u) ==
  /\ idx.pc = "opened"
  /\ idx' = [idx EXCEPT !.pc = "raised"]
  /\ UNCHANGED <<tables, cached, exists, clr, gen, stale, cachedGen>>

\* clear_repo(user_id, repo_id) enters get_table and reads self._table
ClrStart(u, r) ==
  /\ clr.pc = "idle"
  /\ u \in user_stores
  /\ clr' = [pc |-> IF cached[u] # None THEN "opened" ELSE "names",
             handle |-> IF cached[u] # None THEN cachedGen ELSE NoHandle,
             found |-> FALSE, all_data |-> <<>>, repo_id |-> r]
  /\ UNCHANGED <<tables, cached, exists, idx, gen, stale, cachedGen>>

\* get_table: table_name in self.db.table_names()
ClrNames(u) ==
  /\ clr.pc = "names"
  /\ clr' = [clr EXCEPT !.pc = "get", !.found = DefaultTable \in exists[u]]
  /\ UNCHANGED <<tables, cached, exists, idx, gen, stale, cachedGen>>

\* get_table: open_table, which raises out of clear_repo (the call is made
\* before the try block) when the table is gone, or
\* create_table(mode="overwrite"), which leaves an empty table
ClrGet(u) ==
  /\ clr.pc = "get"
  /\ IF clr.found
     THEN /\ clr' = IF DefaultTable \in exists[u]
                    THEN [clr EXCEPT !.pc = "assign", !.handle = gen]
                    ELSE NotClearing
          /\ UNCHANGED <<tables, exists>>
     ELSE /\ exists' = [exists EXCEPT ![u] = @ \cup {DefaultTable}]
          /\ tables' = [tables EXCEPT ![u][DefaultTable] = <<>>]
          /\ clr' = [clr EXCEPT !.pc = "assign", !.handle = gen]
  /\ UNCHANGED <<cached, idx, gen, stale, cachedGen>>

\* get_table: self._table = <the handle opened or created>
ClrAssign(u) ==
  /\ clr.pc = "assign"
  /\ cached' = [cached EXCEPT ![u] = DefaultTable]
  /\ cachedGen' = clr.handle
  /\ clr' = [clr EXCEPT !.pc = "take"]
  /\ UNCHANGED <<tables, exists, idx, gen, stale>>

\* get_table: return self._table
ClrTake(u) ==
  /\ clr.pc = "take"
  /\ clr' = [clr EXCEPT !.pc = "opened",
                        !.handle = IF cached[u] = None THEN NoHandle ELSE cachedGen]
  /\ UNCHANGED <<tables, cached, exists, idx, gen, stale, cachedGen>>

\* all_data = table.to_pandas() and the filter: the call returns when no row
\* is to be removed; reading the handle of a dropped table raises inside
\* the try block
ClrRead(u) ==
  LET data == tables[u][DefaultTable]
      keep(row) == Kept(row, u, clr.repo_id)
      filtered == SelectSeq(data, keep)
  IN
  /\ clr.pc = "opened"
  /\ clr' = IF ~Live(clr.handle) THEN [clr EXCEPT !.pc = "except"]
            ELSE IF data # <<>> /\ Len(filtered) < Len(data)
                 THEN [clr EXCEPT !.pc = "read", !.all_data = data]
                 ELSE NotClearing
  /\ UNCHANGED <<tables, cached, exists, idx, gen, stale, cachedGen>>

\* the table of u's store is dropped
DropTable(u) ==
  /\ tables' = [tables EXCEPT ![u][DefaultTable] = <<>>]
  /\ exists' = [exists EXCEPT ![u] = @ \ {DefaultTable}]
  /\ gen' = gen + 1

\* self.db.drop_table(table_name) of the try block; dropping a table that
\* is gone raises
ClrDrop(u) ==
  /\ clr.pc = "read"
  /\ IF DefaultTable \in exists[u]
     THEN /\ DropTable(u)
          /\ clr' = [clr EXCEPT !.pc = "reset"]
     ELSE /\ clr' = [clr EXCEPT !.pc = "except"]
          /\ UNCHANGED <<tables, exists, gen>>
  /\ UNCHANGED <<cached, idx, stale, cachedGen>>

\* self._table = None of the try block; the call returns here when no row
\* of the table was kept
ClrReset(u) ==
  LET keep(row) == Kept(row, u, clr.repo_id)
      filtered == SelectSeq(clr.all_data, keep)
  IN
  /\ clr.pc = "reset"
  /\ cached' = [cached EXCEPT ![u] = None]
  /\ clr' = IF Len(filtered) > 0 THEN [clr EXCEPT !.pc = "create"] ELSE NotClearing
  /\ UNCHANGED <<tables, exists, idx, gen, stale, cachedGen>>

\* table = self.db.create_table(table_name, mode="overwrite"): an empty
\* table, whatever was there; self._table is not assigned
ClrCreate(u) ==
  /\ clr.pc = "create"
  /\ exists' = [exists EXCEPT ![u] = @ \cup {DefaultTable}]
  /\ tables' = [tables EXCEPT ![u][DefaultTable] = <<>>]
  /\ clr' = NotClearing
  /\ UNCHANGED <<cached, idx, gen, stale, cachedGen>>

\* self.db.drop_table(table_name) of the except block; when the table is
\* gone the exception leaves clear_repo
ClrExceptDrop(u) ==
  /\ clr.pc = "except"
  /\ IF DefaultTable \in exists[u]
     THEN /\ DropTable(u)
          /\ clr' = [clr EXCEPT !.pc = "except_reset"]
     ELSE /\ clr' = NotClearing
          /\ UNCHANGED <<tables, exists, gen>>
  /\ UNCHANGED <<cached, idx, stale, cachedGen>>

\* self._table = None of the except block
ClrExceptReset(u) ==
  /\ clr.pc = "except_reset"
  /\ cached' = [cached EXCEPT ![u] = None]
  /\ clr' = NotClearing
  /\ UNCHANGED <<tables, exists, idx, gen, stale, cachedGen>>

(***************************************************************************)
(* Specifications                                                          *)
(***************************************************************************)
StoreIdle ==
  /\ user_stores = {}
  /\ exists = [u \in Users |-> {}]
  /\ tables = [u \in Users |-> [n \in TableNames |-> <<>>]]
  /\ cached = [u \in Users |-> None]
  /\ addMode = "reject"
  /\ last = NoCall
  /\ cleared = {}

TopKs == {1, 2}
BatchSizes == {1, DefaultBatchSize}
ChunkLists == {<<>>, <<ChunkA>>, <<ChunkB>>, <<ChunkA, ChunkB>>}

Init == StoreInit /\ ChunkIdle /\ DiscIdle /\ RegIdle /\ MutIdle /\ ExtIdle

\* what every step of the vector store leaves alone
StoreFrame == UNCHANGED <<cleared, chunkVars, discVars, regVars, mutVars, extVars>>

DoGetVectorStore ==
  /\ \E u \in Users : GetVectorStore(u)
  /\ StoreFrame

\* POST /index reaches index_chunks with positional user_id and repo_id
DoIndexPositional ==
  /\ \E u \in Users, cl \in ChunkLists, r \in Repos :
       IndexChunks(u, cl, "positional", DefaultBatchSize, r)
  /\ StoreFrame

DoIndexChunks ==
  /\ \E u \in Users, cl \in ChunkLists, bs \in BatchSizes, r \in Repos :
       IndexChunks(u, cl, "keyword", bs, r)
  /\ StoreFrame

DoSearch ==
  /\ \E u \in Users, q \in Queries, v \in Users, r \in Repos \cup {None}, k \in TopKs :
       Search(u, q, v, r, k, FALSE)
  /\ StoreFrame

DoClearRepo ==
  /\ \E u \in Users, v \in Users, r \in Repos : ClearRepo(u, v, r, FALSE)
  /\ StoreFrame

DoCount ==
  /\ \E u \in Users : Count(u)
  /\ StoreFrame

Next ==
  \/ DoGetVectorStore
  \/ DoIndexPositional
  \/ DoIndexChunks
  \/ DoSearch
  \/ DoClearRepo
  \/ DoCount

Spec == Init /\ [][Next]_vars

(***************************************************************************)
(* ClearSpec: the requests of one user on that user's store, with the      *)
(* history of which repositories were cleared and not indexed since.       *)
(***************************************************************************)
TheUser == "u1"

HistFrame == UNCHANGED <<chunkVars, discVars, regVars, mutVars, extVars>>

HistGetVectorStore ==
  /\ GetVectorStore(TheUser)
  /\ UNCHANGED cleared
  /\ HistFrame

HistIndexChunks ==
  /\ \E cl \in ChunkLists, shape \in {"positional", "keyword"}, r \in Repos :
       /\ IndexChunks(TheUser, cl, shape, DefaultBatchSize, r)
       /\ cleared' = {c \in cleared : c.repo_id # r}
  /\ HistFrame

HistSearch ==
  /\ \E q \in Queries, r \in Repos \cup {None}, k \in TopKs :
       Search(TheUser, q, TheUser, r, k, FALSE)
  /\ UNCHANGED cleared
  /\ HistFrame

HistClearRepo ==
  /\ \E r \in Repos :
       /\ ClearRepo(TheUser, TheUser, r, FALSE)
       /\ cleared' =
            IF last'.raised THEN cleared
            ELSE {c \in cleared : c.repo_id # r}
                   \cup {[user_id |-> TheUser, repo_id |-> r,
                          removed |-> Len(tables[TheUser][DefaultTable])
                                        > Len(tables'[TheUser][DefaultTable])]}
  /\ HistFrame

HistNext ==
  \/ HistGetVectorStore
  \/ HistIndexChunks
  \/ HistSearch
  \/ HistClearRepo

ClearSpec == Init /\ [][HistNext]_vars

(***************************************************************************)
(* FaultSpec: the requests of one user on that user's store, where the     *)
(* storage and embedding calls of search and clear_repo may raise.         *)
(***************************************************************************)
FaultGetVectorStore ==
  /\ GetVectorStore(TheUser)
  /\ StoreFrame

FaultIndexChunks ==
  /\ \E cl \in ChunkLists, shape \in {"positional", "keyword"}, r \in Repos :
       IndexChunks(TheUser, cl, shape, DefaultBatchSize, r)
  /\ StoreFrame

FaultSearch ==
  /\ \E q \in Queries, r \in Repos \cup {None}, k \in TopKs, fault \in BOOLEAN :
       Search(TheUser, q, TheUser, r, k, fault)
  /\ StoreFrame

FaultClearRepo ==
  /\ \E r \in Repos, fault \in BOOLEAN : ClearRepo(TheUser, TheUser, r, fault)
  /\ StoreFrame

FaultCount ==
  /\ Count(TheUser)
  /\ StoreFrame

FaultNext ==
  \/ FaultGetVectorStore
  \/ FaultIndexChunks
  \/ FaultSearch
  \/ FaultClearRepo
  \/ FaultCount

FaultSpec == Init /\ [][FaultNext]_vars

(***************************************************************************)
(* RegistrySpec: two callers of get_vector_store, interleaved.             *)
(***************************************************************************)
RegFrame == UNCHANGED <<storeVars, chunkVars, discVars, mutVars, extVars>>

RegInit == StoreIdle /\ ChunkIdle /\ DiscIdle /\ RegIdle /\ MutIdle /\ ExtIdle

DoGvsLookup ==
  /\ \E t \in Callers, u \in Users : GvsLookup(t, u)
  /\ RegFrame

DoGvsConstruct ==
  /\ \E t \in Callers : GvsConstruct(t)
  /\ RegFrame

DoGvsAssign ==
  /\ \E t \in Callers : GvsAssign(t)
  /\ RegFrame

DoGvsReturn ==
  /\ \E t \in Callers : GvsReturn(t)
  /\ RegFrame

RegNext ==
  \/ DoGvsLookup
  \/ DoGvsConstruct
  \/ DoGvsAssign
  \/ DoGvsReturn

RegistrySpec == RegInit /\ [][RegNext]_vars

(***************************************************************************)
(* OverlapSpec: one index_chunks call and one clear_repo call at a time on *)
(* the store of one user, their storage calls interleaved as two threads   *)
(* would run them.                                                         *)
(***************************************************************************)
MutFrame ==
  UNCHANGED <<user_stores, addMode, last, cleared, chunkVars, discVars, regVars, extVars>>

DoOpenStore ==
  /\ GetVectorStore(TheUser)
  /\ UNCHANGED <<cleared, chunkVars, discVars, regVars, mutVars, extVars>>

DoIdxStart ==
  /\ \E cl \in ChunkLists, bs \in BatchSizes, r \in Repos : IdxStart(TheUser, cl, bs, r)
  /\ MutFrame

DoIdxNames ==
  /\ IdxNames(TheUser)
  /\ MutFrame

DoIdxGet ==
  /\ IdxGet(TheUser)
  /\ MutFrame

DoIdxAssign ==
  /\ IdxAssign(TheUser)
  /\ MutFrame

DoIdxTake ==
  /\ IdxTake(TheUser)
  /\ MutFrame

DoIdxAdd ==
  /\ IdxAdd(TheUser)
  /\ MutFrame

DoClrStart ==
  /\ \E r \in Repos : ClrStart(TheUser, r)
  /\ MutFrame

DoClrNames ==
  /\ ClrNames(TheUser)
  /\ MutFrame

DoClrGet ==
  /\ ClrGet(TheUser)
  /\ MutFrame

DoClrAssign ==
  /\ ClrAssign(TheUser)
  /\ MutFrame

DoClrTake ==
  /\ ClrTake(TheUser)
  /\ MutFrame

DoClrRead ==
  /\ ClrRead(TheUser)
  /\ MutFrame

DoClrDrop ==
  /\ ClrDrop(TheUser)
  /\ MutFrame

DoClrReset ==
  /\ ClrReset(TheUser)
  /\ MutFrame

DoClrCreate ==
  /\ ClrCreate(TheUser)
  /\ MutFrame

DoClrExceptDrop ==
  /\ ClrExceptDrop(TheUser)
  /\ MutFrame

DoClrExceptReset ==
  /\ ClrExceptReset(TheUser)
  /\ MutFrame

MutNext ==
  \/ DoOpenStore
  \/ DoIdxStart
  \/ DoIdxNames
  \/ DoIdxGet
  \/ DoIdxAssign
  \/ DoIdxTake
  \/ DoIdxAdd
  \/ DoClrStart
  \/ DoClrNames
  \/ DoClrGet
  \/ DoClrAssign
  \/ DoClrTake
  \/ DoClrRead
  \/ DoClrDrop
  \/ DoClrReset
  \/ DoClrCreate
  \/ DoClrExceptDrop
  \/ DoClrExceptReset

OverlapSpec == Init /\ [][MutNext]_vars

LoadInit ==
  /\ StoreIdle /\ ChunkIdle /\ DiscIdle /\ RegIdle /\ MutIdle
  /\ RepoIdle /\ ApiIdle /\ LoadIdle /\ SrvIdle

LoadFrame ==
  UNCHANGED <<storeVars, chunkVars, discVars, regVars, mutVars, repoVars, apiVars, srvVars>>

DoEmbLookup ==
  /\ \E t \in Embedders : EmbLookup(t)
  /\ LoadFrame

DoEmbLoad ==
  /\ \E t \in Embedders : EmbLoad(t)
  /\ LoadFrame

DoEmbStore ==
  /\ \E t \in Embedders : EmbStore(t)
  /\ LoadFrame

DoEmbEncode ==
  /\ \E t \in Embedders : EmbEncode(t)
  /\ LoadFrame

LoadNext ==
  \/ DoEmbLookup
  \/ DoEmbLoad
  \/ DoEmbStore
  \/ DoEmbEncode

LoadSpec == LoadInit /\ [][LoadNext]_vars

DoIdxFail ==
  /\ IdxFail(TheUser)
  /\ MutFrame

BatchNext ==
  \/ DoOpenStore
  \/ DoIdxStart
  \/ DoIdxNames
  \/ DoIdxGet
  \/ DoIdxAssign
  \/ DoIdxTake
  \/ DoIdxAdd
  \/ DoIdxFail

BatchSpec == Init /\ [][BatchNext]_vars

ChunkSpecInit == StoreIdle /\ ChunkInit /\ DiscIdle /\ RegIdle /\ MutIdle /\ ExtIdle

ChunkNext == ChunkFile /\ UNCHANGED <<storeVars, discVars, regVars, mutVars, extVars>>

ChunkSpec == ChunkSpecInit /\ [][ChunkNext]_vars

DiscSpecInit == StoreIdle /\ ChunkIdle /\ DiscInit /\ RegIdle /\ MutIdle /\ ExtIdle

DiscNext == DiscoverFiles /\ UNCHANGED <<storeVars, chunkVars, regVars, mutVars, extVars>>

DiscSpec == DiscSpecInit /\ [][DiscNext]_vars

RepoSpecInit ==
  StoreIdle /\ ChunkIdle /\ RepoInit /\ RegIdle /\ MutIdle /\ ApiIdle /\ LoadIdle /\ SrvIdle

RepoFrame ==
  UNCHANGED <<storeVars, chunkVars, regVars, mutVars, apiVars, loadVars, srvVars>>

DoIndexRepoDiscover == IndexRepoDiscover /\ RepoFrame

DoIndexRepoChunk == IndexRepoChunk /\ RepoFrame

DoIndexRepoYield == IndexRepoYield /\ RepoFrame

RepoNext == DoIndexRepoDiscover \/ DoIndexRepoChunk \/ DoIndexRepoYield

RepoSpec == RepoSpecInit /\ [][RepoNext]_vars

\* the rows the code_chunks table of one user may hold when the process starts
MaxStored == 4

StoredMany(u) ==
  SeqsUpTo({SchemaRow(ChunkA, u, "r1"), SchemaRow(ChunkB, u, "r1"),
            SchemaRow(ChunkA, u, "r2")}, MaxStored)

LimitInit ==
  /\ user_stores = {}
  /\ \E stored \in StoredMany(TheUser) :
       /\ tables = [u \in Users |->
                      [n \in TableNames |->
                         IF u = TheUser /\ n = DefaultTable THEN stored ELSE <<>>]]
       /\ exists = [u \in Users |->
                      IF u = TheUser /\ stored # <<>> THEN {DefaultTable} ELSE {}]
  /\ cached = [u \in Users |-> None]
  \* table.add is not called in this specification
  /\ addMode = "reject"
  /\ last = NoCall
  /\ cleared = {}

LimitSpecInit ==
  LimitInit /\ ChunkIdle /\ DiscIdle /\ RegIdle /\ MutIdle /\ ExtIdle

LimitOpen ==
  /\ GetVectorStore(TheUser)
  /\ StoreFrame

LimitSearch ==
  /\ \E q \in Queries, r \in Repos \cup {None}, k \in TopKs :
       Search(TheUser, q, TheUser, r, k, FALSE)
  /\ StoreFrame

LimitNext == LimitOpen \/ LimitSearch

LimitSpec == LimitSpecInit /\ [][LimitNext]_vars

\* the trees, files and requests the /index handler is run on
ApiFiles ==
  { << <<"a", ".", "p", "y">> >>,
    << <<"s", "r", "c">>, <<"m", ".", "t", "s">> >> }

\* at most one path, relative to the repository or absolute
ApiRequests ==
  {rq \in Requests : Len(rq.file_paths) <= 1}
  \cup {[mode |-> "manual", file_paths |-> << Absolute(RepoRoot \o f) >>, patterns |-> <<>>] :
          f \in ApiFiles}

IndexApiInit ==
  /\ user_stores = {}
  /\ \E stored \in StoredBefore(TheUser) :
       /\ tables = [u \in Users |->
                      [n \in TableNames |->
                         IF u = TheUser /\ n = DefaultTable THEN stored ELSE <<>>]]
       /\ exists = [u \in Users |->
                      IF u = TheUser /\ stored # <<>> THEN {DefaultTable} ELSE {}]
  /\ cached = [u \in Users |-> None]
  /\ addMode \in {"reject", "null_fill"}
  /\ last = NoCall
  /\ cleared = {}
  /\ tree \in {[root_exists |-> TRUE, files |-> fs] : fs \in SUBSET ApiFiles}
           \cup {[root_exists |-> FALSE, files |-> {}]}
  /\ request \in ApiRequests
  /\ discovered = NotDiscovered
  /\ disk \in {d \in [FileUniverse -> {Unreadable, [readable |-> TRUE, lines |-> SmallFile]}] :
                 \A f \in FileUniverse \ tree.files : d[f] = Unreadable}
  /\ repo = NotStarted

IndexApiSpecInit ==
  IndexApiInit /\ ChunkIdle /\ RegIdle /\ MutIdle /\ ApiIdle /\ LoadIdle /\ SrvIdle

IndexApiFrame == UNCHANGED <<cleared, chunkVars, regVars, mutVars, loadVars, srvVars>>

DoApiIndexStart ==
  /\ \E r \in Repos, allowed_paths \in AllowLists, cwd \in WorkDirs, repo_path \in RepoPaths :
       ApiIndexStart(TheUser, r, allowed_paths, cwd, repo_path)
  /\ IndexApiFrame

DoApiIndexClear == ApiIndexClear /\ IndexApiFrame

DoApiIndexDiscover == ApiIndexDiscover /\ IndexApiFrame

DoApiIndexChunk == ApiIndexChunk /\ IndexApiFrame

DoApiIndexYield == ApiIndexYield /\ IndexApiFrame

DoApiIndexFinish == ApiIndexFinish /\ IndexApiFrame

IndexApiNext ==
  \/ DoApiIndexStart
  \/ DoApiIndexClear
  \/ DoApiIndexDiscover
  \/ DoApiIndexChunk
  \/ DoApiIndexYield
  \/ DoApiIndexFinish

IndexApiSpec == IndexApiSpecInit /\ [][IndexApiNext]_vars

\* the bodies of the /index requests served at the same time
ServeBodies ==
  {[mode |-> "full", file_paths |-> <<>>, patterns |-> <<>>],
   [mode |-> "manual", file_paths |-> << << <<"a", ".", "p", "y">> >> >>,
    patterns |-> <<>>]}

ServeInit ==
  /\ user_stores = {}
  /\ \E stored \in StoredBefore(TheUser) :
       /\ tables = [u \in Users |->
                      [n \in TableNames |->
                         IF u = TheUser /\ n = DefaultTable THEN stored ELSE <<>>]]
       /\ exists = [u \in Users |->
                      IF u = TheUser /\ stored # <<>> THEN {DefaultTable} ELSE {}]
  /\ cached = [u \in Users |-> None]
  \* table.add is not reached in this specification
  /\ addMode = "reject"
  /\ last = NoCall
  /\ cleared = {}
  /\ tree \in {[root_exists |-> TRUE, files |-> fs] : fs \in {{}, ApiFiles}}
  /\ request = NoBody
  /\ discovered = NotDiscovered
  /\ disk = [f \in FileUniverse |->
               IF f \in tree.files THEN [readable |-> TRUE, lines |-> SmallFile]
               ELSE Unreadable]
  /\ repo = NotStarted

ServeSpecInit ==
  ServeInit /\ ChunkIdle /\ RegIdle /\ MutIdle /\ ApiIdle /\ LoadIdle /\ SrvIdle

ServeFrame == UNCHANGED <<cleared, chunkVars, regVars, mutVars, loadVars>>

DoSrvAccept ==
  /\ \E q \in Tasks, r \in Repos :
       \/ \E body \in ServeBodies : SrvAccept(q, "/index", r, body)
       \/ SrvAccept(q, "/repos", r, NoBody)
  /\ ServeFrame

DoSrvResume ==
  /\ \E q \in Tasks : SrvResume(q)
  /\ ServeFrame

DoSrvSuspend == SrvSuspend /\ ServeFrame

DoSrvRespond == SrvRespond /\ ServeFrame

DoSrvStart ==
  /\ \E cwd \in {RepoRoot, Elsewhere}, repo_path \in {"plain", "padded"} :
       SrvStart(TheUser, {RepoRoot}, cwd, repo_path)
  /\ ServeFrame

DoSrvEnterClear == SrvEnterClear /\ ServeFrame

DoSrvClear == SrvClear /\ ServeFrame

DoSrvCollect == SrvCollect /\ ServeFrame

DoSrvEnterIndex == SrvEnterIndex /\ ServeFrame

DoSrvFinish == SrvFinish /\ ServeFrame

ServeNext ==
  \/ DoSrvAccept
  \/ DoSrvResume
  \/ DoSrvSuspend
  \/ DoSrvRespond
  \/ DoSrvStart
  \/ DoSrvEnterClear
  \/ DoSrvClear
  \/ DoSrvCollect
  \/ DoSrvEnterIndex
  \/ DoSrvFinish

ServeSpec == ServeSpecInit /\ [][ServeNext]_vars

SearchApiInit ==
  /\ StoreInit /\ ChunkIdle /\ DiscIdle /\ RegIdle /\ MutIdle
  /\ RepoIdle /\ ApiIdle /\ LoadIdle /\ SrvIdle

SearchApiFrame ==
  UNCHANGED <<cleared, chunkVars, discVars, regVars, mutVars, repoVars, loadVars, srvVars>>

DoApiSearchOpen ==
  /\ \E entry \in SearchEntries, u \in Users, q \in Queries, k \in TopKs,
        r \in Repos \cup {None} : ApiSearchOpen(entry, u, q, k, r)
  /\ SearchApiFrame

DoApiSearchCall == ApiSearchCall /\ SearchApiFrame

SearchApiNext == DoApiSearchOpen \/ DoApiSearchCall

SearchApiSpec == SearchApiInit /\ [][SearchApiNext]_vars

(***************************************************************************)
(* Claims about the vector store (Spec, ClearSpec)                         *)
(***************************************************************************)
\* the rows of the table u's store works on
UserTable(u) == tables[u][TableOf(u, DefaultTable)]

AllRows ==
  UNION {{tables[u][n][i] : i \in 1..Len(tables[u][n])} : u \in Users, n \in TableNames}

Hits == {last.hits[i] : i \in 1..Len(last.hits)}

\* C1: a search issued with user_id = B returns no record that an
\* index_chunks call made for another user A inserted.
C1_SearchIsolation ==
  last.op = "search" => \A h \in Hits : h.row.ins_user = last.user_id

\* a search with user_id = B ran on a table holding rows inserted for A
C1_Witness ==
  /\ last.op = "search"
  /\ last.repo_id = None
  /\ \E i \in 1..Len(UserTable(last.store)) :
       UserTable(last.store)[i].ins_user # last.user_id

\* C2: every record index_chunks(chunks, u, r) appends carries user_id = u and
\* repo_id = r, for as long as it exists.
C2_RowsCarryTags ==
  \A row \in AllRows : row.user_id = row.ins_user /\ row.repo_id = row.ins_repo

\* the rows of `before` with another repo_id than the one cleared
OtherRepoRows(rows, repo_id) ==
  LET other(r) == r.repo_id # repo_id
  IN SelectSeq(rows, other)

\* C3: clear_repo(u, r) removes only records tagged (u, r): every record with
\* a different repo_id that the table held is still there, unchanged and in
\* order, when the call has returned.
C3_ClearKeepsOtherRepos ==
  (last.op = "clear_repo" /\ ~last.raised) =>
    OtherRepoRows(last.before, last.repo_id)
      = OtherRepoRows(UserTable(last.store), last.repo_id)

\* C4: every result of search(q, u, top_k, repo_id = r) comes from a stored
\* record whose user_id is u and, when r is given, whose repo_id is r.
C4_ResultsMatchFilter ==
  last.op = "search" =>
    \A h \in Hits :
      /\ h.pos \in 1..Len(UserTable(last.store))
      /\ UserTable(last.store)[h.pos] = h.row
      /\ h.row.user_id = last.user_id
      /\ h.row.ins_user = last.user_id
      /\ (last.repo_id # None =>
            h.row.repo_id = last.repo_id /\ h.row.ins_repo = last.repo_id)

\* search(q, u, top_k, repo_id = r) returned a result from u's table, which
\* also holds a record of another repository
C4_Witness ==
  /\ last.op = "search"
  /\ last.store = last.user_id
  /\ last.repo_id # None
  /\ Hits # {}
  /\ \E i \in 1..Len(UserTable(last.store)) :
       UserTable(last.store)[i].ins_repo # last.repo_id

\* the clear_repo(u, r) calls no index_chunks call for r has followed
ClearedSince(u, r) == {c \in cleared : c.user_id = u /\ c.repo_id = r}

\* C5: between the return of clear_repo(u, r) and the next index_chunks call
\* for (u, r), search(q, u, top_k, repo_id = r) returns no record that
\* belonged to (u, r).
C5_NoResultAfterClear ==
  (last.op = "search" /\ ClearedSince(last.user_id, last.repo_id) # {}) =>
    \A h \in Hits : ~(h.row.ins_user = last.user_id /\ h.row.ins_repo = last.repo_id)

\* search(q, u, top_k, repo_id = r) ran after a clear_repo(u, r) that removed
\* records, with no index_chunks call for (u, r) in between
C5_Witness ==
  /\ last.op = "search"
  /\ \E c \in ClearedSince(last.user_id, last.repo_id) : c.removed

\* a step of index_chunks on u's store with this chunk list
IndexStep(u, cl) ==
  \E shape \in {"positional", "keyword"}, bs \in BatchSizes, r \in Repos :
    IndexChunks(u, cl, shape, bs, r)

\* C12: index_chunks called with an empty chunk list returns 0 and performs
\* no storage action: no table is opened or created and no row is added.
C12_EmptyIndexTouchesNothing ==
  [][\A u \in Users :
       (last'.op = "index_chunks" /\ last'.store = u /\ IndexStep(u, <<>>)) =>
         /\ last'.ret = 0 /\ ~last'.raised
         /\ UNCHANGED <<exists, tables, cached>>]_vars

\* index_chunks([]) returned on a store that has not opened or created any
\* table
C12_Witness ==
  /\ last.op = "index_chunks"
  /\ ~last.raised
  /\ last.ret = 0
  /\ cached[last.store] = None
  /\ exists[last.store] = {}

\* the record of chunk c, as a row of the table
IsRowOf(row, c) ==
  /\ row.file_path = c.file_path /\ row.content = c.content
  /\ row.line_start = c.line_start /\ row.line_end = c.line_end
  /\ row.chunk_type = c.chunk_type /\ row.vector = embed_text(c.content)

\* C13: an index_chunks call on a non-empty list that completes without error
\* returns len(chunks) and leaves the table holding the rows it held followed
\* by one record per input chunk, in input order, for any batch size.
C13_IndexAppends ==
  [][\A u \in Users, cl \in ChunkLists \ {<<>>} :
       (last'.op = "index_chunks" /\ last'.store = u /\ ~last'.raised
          /\ IndexStep(u, cl)) =>
         LET name == TableOf(u, DefaultTable)
             old == tables[u][name]
             new == tables'[u][name]
         IN /\ last'.ret = Len(cl)
            /\ Len(new) = Len(old) + Len(cl)
            /\ SubSeq(new, 1, Len(old)) = old
            /\ \A k \in 1..Len(cl) : IsRowOf(new[Len(old) + k], cl[k])]_vars

\* index_chunks returned for chunks the table already held a record of: the
\* table holds two records of the same chunk
C13_Witness ==
  /\ last.op = "index_chunks"
  /\ ~last.raised
  /\ last.ret >= 1
  /\ \E i, j \in 1..Len(UserTable(last.store)) :
       /\ i < j
       /\ j > Len(UserTable(last.store)) - last.ret
       /\ UserTable(last.store)[i].file_path = UserTable(last.store)[j].file_path
       /\ UserTable(last.store)[i].content = UserTable(last.store)[j].content

\* the rows of the searched table that pass the filter of the last search
MatchingRows ==
  {i \in 1..Len(UserTable(last.store)) :
     Matches(UserTable(last.store)[i], last.user_id, last.repo_id)}

\* C14: search returns at most top_k results and never more results than
\* the user's table has rows.
C14_AtMostTopK ==
  last.op = "search" =>
    /\ Len(last.hits) <= last.top_k
    /\ Len(last.hits) <= Len(UserTable(last.store))

\* a search ran on a table with more matching rows than top_k
C14_Witness ==
  /\ last.op = "search"
  /\ Cardinality(MatchingRows) > last.top_k
  /\ Len(last.hits) = last.top_k

\* the instances constructed for user u
BuiltFor(u) == {i \in 1..Len(built) : built[i] = u}

\* C16: under any interleaving of concurrent get_vector_store(u) calls, at
\* most one VectorStore is constructed for a user and every call for that
\* user returns that instance.
C16_OneStorePerUser ==
  \A u \in Users :
    /\ Cardinality(BuiltFor(u)) <= 1
    /\ Cardinality({p \in returned : p[1] = u}) <= 1

\* C25: under any interleaving of concurrent first calls to embed_text and
\* embed_batch, the embedding model is constructed and warmed up at most
\* once, and every call encodes with that one instance.
C25_OneModel ==
  /\ constructed <= 1
  /\ Cardinality({p[2] : p \in used}) <= 1

\* task q is inside index_chunks or clear_repo: it runs there, or it gave up
\* the event loop there
InStoreCall(q) ==
  \/ loop.running = q /\ loop.call # None
  \/ loop.tasks[q].state = "suspended" /\ loop.tasks[q].frame.call # None

\* C17: for one user's store, the executions of index_chunks and clear_repo
\* issued by requests served at the same time never overlap: no two requests
\* are inside these methods at once, and between two executions the handle
\* the store keeps refers to a table that exists, so no call starts on the
\* handle of a dropped table.
C17_Serialized ==
  /\ \A p, q \in Tasks : p # q => ~(InStoreCall(p) /\ InStoreCall(q))
  /\ \A u \in user_stores :
       (loop.call = None /\ cached[u] # None) => cached[u] \in exists[u]

\* two requests are being served at once: the clear_repo of one has dropped
\* the table and its response is not sent yet, and the other has run its own
\* clear_repo and is inside index_chunks
C17_Witness ==
  \E p, q \in Tasks :
    /\ p # q
    /\ loop.tasks[p].state = "suspended"
    /\ loop.tasks[p].dropped
    /\ loop.running = q
    /\ loop.call = "index_chunks"
    /\ http.cleared

\* C18: when reading or filtering the rows fails inside clear_repo, the
\* user's table is dropped and the cached handle reset, so that a following
\* count() finds no row.
C18_FaultDropsTable ==
  (last.op = "clear_repo" /\ last.fault) =>
    /\ ~last.raised
    /\ cached[last.store] = None
    /\ DefaultTable \notin exists[last.store]
    /\ UserTable(last.store) = <<>>

\* C19: a search or clear_repo call in which a storage or embedding call
\* failed ends in an exception; it never returns normally.
C19_FaultsPropagate ==
  (last.op \in {"search", "clear_repo"} /\ last.fault) => last.raised

\* the rows of the searched table that the filter of the last search rejects
OtherRows == (1..Len(UserTable(last.store))) \ MatchingRows

SearchedRepo ==
  /\ last.op = "search"
  /\ ~last.raised
  /\ last.user_id = last.store
  /\ last.repo_id # None

\* C27 as stated: if the table holds n records tagged (u, r),
\* search(q, u, top_k, repo_id=r) returns exactly min(top_k, n) results,
\* whatever number of records of other repositories the table holds.
C27_ExactlyMinTopK ==
  SearchedRepo => Len(last.hits) = Min(last.top_k, Cardinality(MatchingRows))

\* C27 amended: search(q, u, top_k, repo_id=r) returns exactly min(top_k, n)
\* results when at most 2 * top_k records of the table are not tagged (u, r).
C27_ExactlyMinTopKWithinMargin ==
  (SearchedRepo /\ Cardinality(OtherRows) <= 2 * last.top_k) =>
    Len(last.hits) = Min(last.top_k, Cardinality(MatchingRows))

\* a search with top_k = 1 over two nearer records of another repository and
\* two records of the searched one returned one result
C27_Witness ==
  /\ SearchedRepo
  /\ last.top_k = 1
  /\ Cardinality(OtherRows) = 2
  /\ Cardinality(MatchingRows) = 2
  /\ \A i \in OtherRows, j \in MatchingRows :
       Distance(UserTable(last.store)[i].vector, embed_text("q1"))
         < Distance(UserTable(last.store)[j].vector, embed_text("q1"))
  /\ Len(last.hits) = 1

\* the last n rows of the table index_chunks appends to are the records of
\* the first n chunks of the call in flight, each with its embedding
BatchesRemain(rows, n) ==
  /\ Len(rows) >= n
  /\ \A j \in 1..n :
       LET row == rows[Len(rows) - n + j]
       IN /\ row.file_path = idx.chunks[j].file_path
          /\ row.content = idx.chunks[j].content
          /\ row.line_start = idx.chunks[j].line_start
          /\ row.line_end = idx.chunks[j].line_end
          /\ row.chunk_type = idx.chunks[j].chunk_type
          /\ row.vector = embed_text(idx.chunks[j].content)

\* C29: when embedding or appending fails in the k-th batch, index_chunks
\* raises and the records of batches 1..k-1 stay in the table: the failing
\* step changes no table, and the table ends with those records, each with
\* its embedding vector.
C29_EarlierBatchesRemain ==
  [][(idx.pc = "opened" /\ idx'.pc = "raised") =>
       /\ tables' = tables
       /\ BatchesRemain(tables'[TheUser][DefaultTable], idx.i)]_vars

\* the second batch of a call failed after the first was appended
C29_Witness ==
  /\ idx.pc = "raised"
  /\ idx.i >= 1
  /\ Len(idx.chunks) > idx.i
  /\ BatchesRemain(tables[TheUser][DefaultTable], idx.i)

\* C30: after any completed sequence of index_chunks, search, clear_repo and
\* count calls on one VectorStore, the cached table handle is unset or
\* refers to a table that exists: no call starts with a cached handle of a
\* dropped table.
C30_HandleUnsetOrLive ==
  \A u \in user_stores : cached[u] # None => cached[u] \in exists[u]

\* clear_repo dropped the table a cached handle referred to, and the handle
\* is unset
C30_Witness ==
  /\ last.op = "clear_repo"
  /\ ~last.raised
  /\ last.before # <<>>
  /\ DefaultTable \notin exists[last.store]
  /\ cached[last.store] = None

(***************************************************************************)
(* Claims about the chunker (ChunkSpec)                                    *)
(***************************************************************************)
\* the file went through _split_into_chunks
WasSplit == chunks.called /\ JoinLen(file) > max_chunk_size

Covered(n) ==
  \E i \in 1..Len(chunks.result) :
    chunks.result[i].line_start <= n /\ n <= chunks.result[i].line_end

\* the chunk is the file's lines line_start..line_end
HoldsItsLines(c) ==
  /\ 1 <= c.line_start
  /\ c.line_end <= Len(file)
  /\ c.content = SubSeq(file, c.line_start, c.line_end)

\* C6: for a file that went through the multi-chunk split, every line index
\* from 1 to the file's line count lies in the [line_start, line_end] range of
\* some emitted chunk.
C6_RangesCoverEveryLine ==
  WasSplit => \A n \in 1..Len(file) : Covered(n)

\* C7: every emitted chunk's line_start and line_end are the 1-based indices
\* of the first and last line it holds: its content is the file's lines
\* line_start..line_end, whichever kind of split closed the chunk before it.
C7_RangeIsContent ==
  chunks.called => \A i \in 1..Len(chunks.result) : HoldsItsLines(chunks.result[i])

\* C8: a file whose length is at most max_chunk_size yields exactly one chunk,
\* of type 'file', with line_start = 1 and line_end = the file's line count.
C8_SmallFileOneChunk ==
  (chunks.called /\ JoinLen(file) <= max_chunk_size) =>
    /\ Len(chunks.result) = 1
    /\ chunks.result[1].chunk_type = "file"
    /\ chunks.result[1].line_start = 1
    /\ chunks.result[1].line_end = Len(file)
    /\ chunks.result[1].content = file

\* a small file with several lines, one of them a declaration, was chunked
C8_Witness ==
  /\ chunks.called
  /\ JoinLen(file) <= max_chunk_size
  /\ Len(file) >= 2
  /\ \E i \in 1..Len(file) : IsBoundary(file[i])
  /\ Len(chunks.result) = 1

\* C9: no emitted chunk has empty or whitespace-only content; an empty file
\* yields no chunk.
C9_NoBlankChunk ==
  chunks.called => \A i \in 1..Len(chunks.result) : ~StripEmpty(chunks.result[i].content)

\* C22: every emitted chunk, of type 'file' or 'block', has
\* 1 <= line_start <= line_end.
C22_LineRangeOrdered ==
  chunks.called =>
    \A i \in 1..Len(chunks.result) :
      /\ 1 <= chunks.result[i].line_start
      /\ chunks.result[i].line_start <= chunks.result[i].line_end

\* a split file gave several block chunks, one of them holding a single line
C22_Witness ==
  /\ WasSplit
  /\ Len(chunks.result) >= 2
  /\ \E i \in 1..Len(chunks.result) :
       /\ chunks.result[i].chunk_type = "block"
       /\ Len(chunks.result[i].content) = 1
       /\ chunks.result[i].line_start = chunks.result[i].line_end

\* C23: while a large file is scanned, the buffer is closed as a chunk at a
\* line exactly when the line is a boundary and the buffer length is at least
\* 70% of max_chunk_size, or the buffer length is at least 200% of
\* max_chunk_size, whatever the number of lines the buffer holds.
C23_ClosedExactlyWhenDue ==
  WasSplit =>
    \A k \in 1..Len(file) :
      LET e == split_decisions(file, max_chunk_size)[k]
      IN e.closed <=> ShouldSplit(e.is_boundary, e.length, max_chunk_size)

RECURSIVE Concat(_)
Concat(contents) ==
  IF contents = <<>> THEN <<>> ELSE Head(contents) \o Concat(Tail(contents))

ContentsOf(result) == [i \in 1..Len(result) |-> result[i].content]

\* C24: for a file that went through the multi-chunk split, the contents of
\* the block chunks concatenated in emission order are the file's lines in
\* order, each line in exactly one chunk and none missing.
C24_ChunksReproduceFile ==
  WasSplit => Concat(ContentsOf(chunks.result)) = file

(***************************************************************************)
(* Claims about discovery (DiscSpec)                                       *)
(***************************************************************************)
\* the segments of a path string
RECURSIVE SplitPath(_, _, _)
SplitPath(str, segs, cur) ==
  IF str = <<>> THEN (IF cur = <<>> THEN segs ELSE Append(segs, cur))
  ELSE IF Head(str) = "/"
       THEN SplitPath(Tail(str), IF cur = <<>> THEN segs ELSE Append(segs, cur), <<>>)
       ELSE SplitPath(Tail(str), segs, Append(cur, Head(str)))

\* the directory names the exclusion rule lists
ExcludedDirs ==
  { <<"_", "_", "p", "y", "c", "a", "c", "h", "e", "_", "_">>,
    <<"n", "o", "d", "e", "_", "m", "o", "d", "u", "l", "e", "s">>,
    <<".", "g", "i", "t">>,
    <<"v", "e", "n", "v">>,
    <<".", "v", "e", "n", "v">>,
    <<"b", "u", "i", "l", "d">>,
    <<"d", "i", "s", "t">>,
    <<".", "n", "e", "x", "t">>,
    <<"P", "o", "d", "s">>,
    <<".", "b", "u", "i", "l", "d">> }

HasHiddenSegment(segs) == \E i \in 1..Len(segs) : segs[i] # <<>> /\ segs[i][1] = "."

UnderExcludedDir(segs) == \E i \in 1..(Len(segs) - 1) : segs[i] \in ExcludedDirs

\* C10: in every mode, discover() returns no path that contains a hidden
\* segment or lies under an excluded directory.
C10_NoExcludedPath ==
  discovered.called =>
    \A i \in 1..Len(discovered.result) :
      LET segs == SplitPath(discovered.result[i], <<>>, <<>>)
      IN ~HasHiddenSegment(segs) /\ ~UnderExcludedDir(segs)

\* C11: in every mode, the list discover() returns holds no path twice.
C11_NoDuplicatePath ==
  discovered.called =>
    \A i, j \in 1..Len(discovered.result) :
      discovered.result[i] = discovered.result[j] => i = j

\* C20: discover() on a root that does not exist raises, in every mode, and
\* returns no path.
C20_MissingRootRaises ==
  (discovered.called /\ ~tree.root_exists) =>
    discovered.raised /\ discovered.result = <<>>

\* discover() was called in manual mode, with paths named, on a missing root
C20_Witness ==
  /\ discovered.called
  /\ ~tree.root_exists
  /\ request.mode = "manual"
  /\ request.file_paths # <<>>

(***************************************************************************)
(* Claims about index_repository (RepoSpec)                                *)
(***************************************************************************)
\* what chunk_file gives for the readable ones among `paths`, in that order
RECURSIVE ChunksOfReadable(_)
ChunksOfReadable(paths) ==
  IF paths = <<>> THEN <<>>
  ELSE (IF disk[RelOf(Head(paths))].readable
        THEN chunk_file(Head(paths), disk[RelOf(Head(paths))].lines, DefaultMaxChunkSize)
        ELSE <<>>)
       \o ChunksOfReadable(Tail(paths))

UnreadableAt(k) == ~disk[RelOf(discovered.result[k])].readable

\* C21: a discovered file that cannot be read gives no chunk and no
\* exception: index_repository raises only when discovery does, and when it
\* is exhausted it has yielded the chunks of every readable discovered file,
\* in discovery order.
C21_UnreadableSkipped ==
  /\ repo.pc = "raised" => discovered.raised
  /\ repo.pc = "chunking" =>
       repo.out = ChunksOfReadable(SubSeq(discovered.result, 1, repo.i - 1))
  /\ repo.pc = "yielding" =>
       repo.out \o repo.buf = ChunksOfReadable(SubSeq(discovered.result, 1, repo.i))
  /\ repo.pc = "done" => repo.out = ChunksOfReadable(discovered.result)

\* an unreadable file was discovered before a readable one of two chunks, and
\* the generator is exhausted
C21_Witness ==
  /\ repo.pc = "done"
  /\ \E j, k \in 1..Len(discovered.result) :
       /\ j < k
       /\ UnreadableAt(j)
       /\ ~UnreadableAt(k)
       /\ disk[RelOf(discovered.result[k])].lines = BigFile
  /\ Len(repo.out) >= 2

(***************************************************************************)
(* Claims about the handlers of main.py (SearchApiSpec, IndexApiSpec)      *)
(***************************************************************************)
Answered(entry) == http.pc = "done" /\ http.endpoint = entry /\ http.status = 200

\* C26: the /search endpoint and search_code pass the caller's user_id, the
\* requested top_k and the requested repo_id to VectorStore.search, so the
\* response holds at most top_k results, all of rows of the caller.
C26_SearchGetsCallerArgs ==
  \A entry \in SearchEntries :
    Answered(entry) =>
      /\ last.op = "search"
      /\ last.user_id = http.user
      /\ last.top_k = http.top_k
      /\ last.repo_id = http.repo_id
      /\ Len(http.results) <= http.top_k
      /\ \A i \in 1..Len(http.results) : http.results[i].row.user_id = http.user

\* the rows of the caller's database tagged with the request's repository
TaggedRows ==
  UNION {{<<n, i>> : i \in {k \in 1..Len(tables[http.user][n]) :
                            /\ tables[http.user][n][k].user_id = http.user
                            /\ tables[http.user][n][k].repo_id = http.repo_id}} :
         n \in TableNames}

\* C28: in one /index request clear_repo runs before discovery, chunking
\* and index_chunks; when no chunk is produced the request reports success
\* with files_indexed = 0 and chunks_created = 0, index_chunks is not called
\* and the clear is not undone.
C28_ClearFirst ==
  http.endpoint = "/index" =>
    /\ (discovered.called \/ repo.pc # "idle" \/ http.indexed) => http.cleared
    /\ (http.pc = "done" /\ repo.pc = "done" /\ repo.out = <<>>) =>
         /\ http.status = 200
         /\ http.files_indexed = 0
         /\ http.chunks_created = 0
         /\ ~http.indexed
         /\ TaggedRows = {}

\* a request for a repository with stored rows found files but no chunk, and
\* was answered
C28_Witness ==
  /\ http.endpoint = "/index"
  /\ http.pc = "done"
  /\ http.cleared
  /\ last.op = "clear_repo"
  /\ \E i \in 1..Len(last.before) :
       last.before[i].user_id = http.user /\ last.before[i].repo_id = http.repo_id
  /\ discovered.result # <<>>
  /\ repo.pc = "done"
  /\ repo.out = <<>>

====
